---- MODULE Spec2Model ----
(***************************************************************************)
(* Location scoring and ranking engine of the SoCal business intelligence  *)
(* backend (backend/main.py): metric normaliser, lexical scoring cascade,  *)
(* filter engine and the search endpoints built on them.                   *)
(*                                                                         *)
(* Number representation.  Scores and transport scores are Python floats   *)
(* with one decimal; they are kept as integers in tenths (9.6 is 96).      *)
(* A product base * multiplier is kept in hundredths.  Strings are TLA+    *)
(* strings; Python's `in` on strings is Contains, str.lower() is Lower.    *)
(***************************************************************************)
EXTENDS Integers, Sequences, FiniteSets, TLC

VARIABLES
    fn,     \* the function or endpoint being applied
    args,   \* its inputs
    pc,     \* "call" before the body has run, "done" after
    ret,    \* its result
    db      \* the store: the rows of the areas and area_metrics tables

vars == <<fn, args, pc, ret, db>>

\* Optional values: None is the empty tuple, a present value v is <<v>>.
None == <<>>
Some(v) == <<v>>
Val(opt) == opt[1]

Min(a, b) == IF a < b THEN a ELSE b
\* x = v followed by F(x): v is evaluated once and the result is named
Bind(v, F(_)) == CHOOSE r \in { F(x) : x \in {v} } : TRUE

Max(a, b) == IF a > b THEN a ELSE b

(***************************************************************************)
(* Python string primitives.                                               *)
(***************************************************************************)
\* t in s
Contains(s, t) ==
    \E i \in 0..(Len(s) - Len(t)) : SubSeq(s, i + 1, i + Len(t)) = t

LowerChar(c) ==
    CASE c = "A" -> "a" [] c = "B" -> "b" [] c = "C" -> "c" [] c = "D" -> "d"
      [] c = "E" -> "e" [] c = "F" -> "f" [] c = "G" -> "g" [] c = "H" -> "h"
      [] c = "I" -> "i" [] c = "J" -> "j" [] c = "K" -> "k" [] c = "L" -> "l"
      [] c = "M" -> "m" [] c = "N" -> "n" [] c = "O" -> "o" [] c = "P" -> "p"
      [] c = "Q" -> "q" [] c = "R" -> "r" [] c = "S" -> "s" [] c = "T" -> "t"
      [] c = "U" -> "u" [] c = "V" -> "v" [] c = "W" -> "w" [] c = "X" -> "x"
      [] c = "Y" -> "y" [] c = "Z" -> "z" [] OTHER -> c

RECURSIVE Lower(_)
\* s.lower()
Lower(s) ==
    IF Len(s) = 0 THEN ""
    ELSE IF Len(s) = 1 THEN LowerChar(s)
    ELSE Lower(SubSeq(s, 1, Len(s) \div 2))
         \o Lower(SubSeq(s, Len(s) \div 2 + 1, Len(s)))

\* any(term in s for term in terms)
AnyTermIn(terms, s) == \E t \in terms : Contains(s, t)

(***************************************************************************)
(* float(text) for the coordinate columns.  Coordinates are counted in     *)
(* 1/10000 of a degree ("34.0522" is 340522); the texts of the model carry *)
(* at most four decimals.  A text that is not an optional sign, digits and *)
(* an optional fraction raises ValueError.                                 *)
(***************************************************************************)
DigitOf(c) ==
    CASE c = "0" -> 0 [] c = "1" -> 1 [] c = "2" -> 2 [] c = "3" -> 3
      [] c = "4" -> 4 [] c = "5" -> 5 [] c = "6" -> 6 [] c = "7" -> 7
      [] c = "8" -> 8 [] c = "9" -> 9 [] OTHER -> -1

RECURSIVE NatOf(_)
\* the number a digit string denotes, -1 when it is empty or has another
\* character
NatOf(s) ==
    IF Len(s) = 0 \/ \E i \in 1..Len(s) : DigitOf(SubSeq(s, i, i)) < 0 THEN -1
    ELSE IF Len(s) = 1 THEN DigitOf(s)
    ELSE 10 * NatOf(SubSeq(s, 1, Len(s) - 1)) + DigitOf(SubSeq(s, Len(s), Len(s)))

\* s.find(c) + 1: the first position of character c in s, 0 when absent
IndexOf(s, c) ==
    IF \E i \in 1..Len(s) : SubSeq(s, i, i) = c
    THEN CHOOSE i \in 1..Len(s) :
            /\ SubSeq(s, i, i) = c
            /\ \A j \in 1..(i - 1) : SubSeq(s, j, j) # c
    ELSE 0

\* the value of an unsigned decimal text, -1 when it is malformed
UnsignedOf(s) ==
    LET dot == IndexOf(s, ".")
    IN  IF dot = 0
        THEN Bind(NatOf(s), LAMBDA n : IF n < 0 THEN -1 ELSE 10000 * n)
        ELSE LET frac == SubSeq(s, dot + 1, Len(s))
             IN  IF Len(frac) > 4 THEN -1
                 ELSE Bind(<<NatOf(SubSeq(s, 1, dot - 1)),
                             NatOf(frac \o SubSeq("0000", 1, 4 - Len(frac)))>>,
                           LAMBDA n : IF n[1] < 0 \/ n[2] < 0 THEN -1
                                      ELSE 10000 * n[1] + n[2])

\* float(text): [ok |-> TRUE, value |-> v] or [ok |-> FALSE] for ValueError
ParseFloat(text) ==
    LET negative == Len(text) > 0 /\ SubSeq(text, 1, 1) = "-"
    IN  Bind(UnsignedOf(IF negative THEN SubSeq(text, 2, Len(text)) ELSE text),
             LAMBDA v : IF v < 0 THEN [ok |-> FALSE]
                        ELSE [ok |-> TRUE,
                              value |-> IF negative THEN -v ELSE v])

(***************************************************************************)
(* round(x, 1) on IEEE-754 doubles.                                        *)
(*                                                                         *)
(* RoundRatio rounds num/den to the nearest integer; it is used where the  *)
(* exact value is never half way between two tenths.                       *)
(*                                                                         *)
(* RoundProduct rounds the product (b/10)*(m/10) of a one-decimal score    *)
(* and a one-decimal multiplier, after the clamp, to one decimal.  When    *)
(* the exact product ends in 5 hundredths the double computed by Python    *)
(* lies just above or just below the tie and round() follows the double;   *)
(* TieRoundsUp lists, per multiplier, the scores for which it goes up.     *)
(***************************************************************************)
RoundRatio(num, den) == (2 * num + den) \div (2 * den)

TieRoundsUp(b, m) ==
    CASE m = 3  -> b \in {25, 35, 95}
      [] m = 5  -> b \in {1, 9, 11, 13, 15, 21, 27, 31, 35, 37, 47, 49, 55,
                          57, 59, 67, 69, 75, 77, 79, 83, 89, 93, 95, 99}
      [] m = 7  -> b \in {25}
      [] m = 9  -> b \in {5, 15, 55, 65, 75, 85, 95}
      [] m = 11 -> b \in {5, 15, 25, 35, 45, 55, 65, 85}
      [] m = 13 -> b \in {5, 15, 45, 55, 65, 75}
      [] m = 15 -> b \in {1, 5, 9, 11, 13, 21, 25, 27, 31, 37, 45, 47, 49,
                          57, 59, 65}
      [] OTHER  -> FALSE

\* round(h/100, 1) in tenths, h the clamped product b*m in hundredths
RoundProduct(h, b, m) ==
    IF h % 10 = 5 /\ h = b * m
    THEN (IF TieRoundsUp(b, m) THEN h \div 10 + 1 ELSE h \div 10)
    ELSE (h + 5) \div 10

(***************************************************************************)
(* Metric normaliser.                                                      *)
(***************************************************************************)
\* Mutant: the transport score is not clamped.
ScoreFromMetricsUnclamped(metric) ==
    LET pop_norm_x1500 == Max(0, Min(15000, metric.population_density))
    IN  RoundRatio(pop_norm_x1500 + 100 * metric.transport_score, 250)

\* 0.6 * clamp(pd / 1500, 0, 10) + 0.4 * clamp(ts, 0, 10), rounded to one
\* decimal.  In tenths the exact value is (pd' + 100 * ts') / 250 with pd'
\* the density clamped to 0..15000 and ts' the transport score clamped to
\* 0..100 tenths.
_score_from_metrics(metric) ==
    LET pop_norm_x1500 == Max(0, Min(15000, metric.population_density))
        transport_norm == Max(0, Min(100, metric.transport_score))
    IN  RoundRatio(pop_norm_x1500 + 100 * transport_norm, 250)

(***************************************************************************)
(* Lexical scoring engine.                                                 *)
(***************************************************************************)
RestaurantTypes == {"restaurant", "food", "dining", "pizza", "cafe"}
BeachQueryTerms == {"beach", "coastal", "waterfront"}
BeachNameTerms  == {"beach", "coast", "marina"}
UrbanQueryTerms == {"downtown", "urban", "city", "center"}
UrbanNameTerms  == {"downtown", "center", "city"}
HillQueryTerms  == {"hills", "hillside", "mountain"}
HillNameTerms   == {"hills", "heights", "ridge"}
DenseQueryTerms == {"high", "dense", "busy", "crowded"}
TransitQueryTerms ==
    {"transit", "transport", "metro", "bus", "rail", "subway", "accessible",
     "connectivity"}
BestQueryTerms == {"best", "top", "excellent", "great"}
BusinessQueryTerms ==
    {"business", "commercial", "retail", "office", "store", "shop"}
GeneralQueries == {"all", "show", "list", "find", "search", ""}

\* The multipliers of the branches, in tenths.
RestaurantBoost(metric) ==
    IF metric.population_density > 8000 THEN 13
    ELSE IF metric.population_density > 5000 THEN 11
    ELSE 8

BeachBoost(area_name) ==
    IF AnyTermIn(BeachNameTerms, Lower(area_name)) THEN 14 ELSE 3

UrbanBoost(area_name, metric) ==
    IF AnyTermIn(UrbanNameTerms, Lower(area_name)) THEN 13
    ELSE IF metric.population_density > 10000 THEN 12
    ELSE 7

HillBoost(area_name) ==
    IF AnyTermIn(HillNameTerms, Lower(area_name)) THEN 13 ELSE 5

DenseBoost(metric) ==
    IF metric.population_density > 10000 THEN 14
    ELSE IF metric.population_density > 7000 THEN 12
    ELSE 6

TransitBoost(metric) ==
    IF metric.transport_score > 80 THEN 15
    ELSE IF metric.transport_score > 60 THEN 13
    ELSE IF metric.transport_score > 40 THEN 11
    ELSE 5

BestBoost(base_score) ==
    IF base_score > 70 THEN 12
    ELSE IF base_score > 50 THEN 10
    ELSE 8

BusinessBoost(metric) ==
    IF metric.business_density > 80 THEN 13
    ELSE IF metric.business_density > 60 THEN 11
    ELSE 9

\* Mutant: every query that matched nothing is treated as a general query.
GeneralBoostAlways(query) == 10

\* The last elif and the else: a general query keeps the base score, any
\* other query scores 0.0 (multiplier 0).
GeneralBoost(query) == IF query \in GeneralQueries THEN 10 ELSE 0

\* business_type and business_type.lower() in [...]
IsRestaurantType(business_type) ==
    /\ business_type # None
    /\ Val(business_type) # ""
    /\ Lower(Val(business_type)) \in RestaurantTypes

\* Mutant: the transport branch is tested before the geographic branches.
SearchMultiplierTransitFirst(query, area_name, city_name, business_type, base_score, metric) ==
    IF Contains(Lower(area_name), query) \/ Contains(Lower(city_name), query)
    THEN 15
    ELSE IF IsRestaurantType(business_type) THEN RestaurantBoost(metric)
    ELSE IF AnyTermIn(TransitQueryTerms, query) THEN TransitBoost(metric)
    ELSE IF AnyTermIn(BeachQueryTerms, query) THEN BeachBoost(area_name)
    ELSE IF AnyTermIn(UrbanQueryTerms, query) THEN UrbanBoost(area_name, metric)
    ELSE IF AnyTermIn(HillQueryTerms, query) THEN HillBoost(area_name)
    ELSE IF AnyTermIn(DenseQueryTerms, query) THEN DenseBoost(metric)
    ELSE IF AnyTermIn(BestQueryTerms, query) THEN BestBoost(base_score)
    ELSE IF AnyTermIn(BusinessQueryTerms, query) THEN BusinessBoost(metric)
    ELSE GeneralBoost(query)

\* The multiplier, in tenths, that the if/elif chain applies to base_score;
\* 0 stands for the final else branch (score = 0.0).
SearchMultiplier(query, area_name, city_name, business_type, base_score, metric) ==
    IF Contains(Lower(area_name), query) \/ Contains(Lower(city_name), query)
    THEN 15
    ELSE IF IsRestaurantType(business_type) THEN RestaurantBoost(metric)
    ELSE IF AnyTermIn(BeachQueryTerms, query) THEN BeachBoost(area_name)
    ELSE IF AnyTermIn(UrbanQueryTerms, query) THEN UrbanBoost(area_name, metric)
    ELSE IF AnyTermIn(HillQueryTerms, query) THEN HillBoost(area_name)
    ELSE IF AnyTermIn(DenseQueryTerms, query) THEN DenseBoost(metric)
    ELSE IF AnyTermIn(TransitQueryTerms, query) THEN TransitBoost(metric)
    ELSE IF AnyTermIn(BestQueryTerms, query) THEN BestBoost(base_score)
    ELSE IF AnyTermIn(BusinessQueryTerms, query) THEN BusinessBoost(metric)
    ELSE GeneralBoost(query)

\* Mutant: the score is not capped at 10.0.
NormalizeScoreNoCap(score) == IF score > 0 THEN Max(0, score) ELSE score

\* if score > 0: score = min(10.0, max(0.0, score)); the score in hundredths
NormalizeScore(score) ==
    IF score > 0 THEN Min(1000, Max(0, score)) ELSE score

\* The returned score in tenths.
_calculate_search_score(query, area_name, city_name, business_type, base_score, metric) ==
    LET mult  == SearchMultiplier(query, area_name, city_name, business_type,
                                  base_score, metric)
        score == NormalizeScore(base_score * mult)
    IN  RoundProduct(score, base_score, mult)

(***************************************************************************)
(* Results of a call: a returned value or a raised exception.              *)
(***************************************************************************)
Returns(v) == [exc |-> "none", value |-> v]
Raises(e)  == [exc |-> e]
Pending    == [exc |-> "pending"]

(***************************************************************************)
(* Filter engine.                                                          *)
(***************************************************************************)
COUNTY_MAPPING ==
    [name \in {"Downtown LA", "Manhattan Beach", "Beverly Hills", "Inglewood"}
        |-> "Los Angeles County"]
    @@ [name \in {"Anaheim", "Newport Beach", "Irvine"} |-> "Orange County"]

\* d.get(key, default) on a dict with string keys
DictGet(d, key, default) == IF key \in DOMAIN d THEN d[key] ELSE default

\* Truth value of an Optional list or dict: None and the empty one are falsy.
Truthy(x) == x # None /\ DOMAIN Val(x) # {}

\* x in list
InList(x, list) == \E i \in DOMAIN list : list[i] = x

\* Area.latitude and Area.longitude are String(20) columns, and Python 3
\* orders no str against a number: `area.latitude < bound` raises TypeError
\* whatever the two values are.
StrNumberCompare(text, number) == "TypeError"

\* The outcome of the function body: Returns(TRUE), Returns(FALSE) or the
\* exception of the first comparison of the map-bounds test.
\* the apartment test with a missing count read as zero
ApartmentCountRejectsNoneAsZero(metric, filters) ==
    LET count == IF metric.apartment_count = None THEN 0
                 ELSE Val(metric.apartment_count)
    IN  \/ /\ filters.apartment_count_min # None
           /\ count < Val(filters.apartment_count_min)
        \/ /\ filters.apartment_count_max # None
           /\ count > Val(filters.apartment_count_max)

\* the apartment count range test: applied only when the count exists
ApartmentCountRejects(metric, filters) ==
    \/ /\ filters.apartment_count_min # None
       /\ metric.apartment_count # None
       /\ Val(metric.apartment_count) < Val(filters.apartment_count_min)
    \/ /\ filters.apartment_count_max # None
       /\ metric.apartment_count # None
       /\ Val(metric.apartment_count) > Val(filters.apartment_count_max)

_passes_filters(area, metric, filters) ==
    IF /\ Truthy(filters.counties)
       /\ \/ area.name \notin DOMAIN COUNTY_MAPPING
          \/ ~InList(COUNTY_MAPPING[area.name], Val(filters.counties))
    THEN Returns(FALSE)
    ELSE IF /\ filters.population_density_min # None
            /\ metric.population_density < Val(filters.population_density_min)
    THEN Returns(FALSE)
    ELSE IF /\ filters.population_density_max # None
            /\ metric.population_density > Val(filters.population_density_max)
    THEN Returns(FALSE)
    ELSE IF /\ filters.business_density_min # None
            /\ metric.business_density < Val(filters.business_density_min)
    THEN Returns(FALSE)
    ELSE IF /\ filters.business_density_max # None
            /\ metric.business_density > Val(filters.business_density_max)
    THEN Returns(FALSE)
    ELSE IF /\ filters.transport_score_min # None
            /\ metric.transport_score < Val(filters.transport_score_min)
    THEN Returns(FALSE)
    ELSE IF /\ filters.transport_score_max # None
            /\ metric.transport_score > Val(filters.transport_score_max)
    THEN Returns(FALSE)
    ELSE IF ApartmentCountRejects(metric, filters)
    THEN Returns(FALSE)
    ELSE IF Truthy(filters.map_bounds)
    THEN Raises(StrNumberCompare(area.latitude,
                                 DictGet(Val(filters.map_bounds), "south", -900000)))
    ELSE Returns(TRUE)

(***************************************************************************)
(* The store.  seed() runs when the application is imported and fills the  *)
(* areas and area_metrics tables; the rows below are rows of its tables.   *)
(***************************************************************************)
Area(id, name, city, latitude, longitude) ==
    [id |-> id, name |-> name, city |-> city,
     latitude |-> latitude, longitude |-> longitude]

AreaMetric(id, area_id, pd, bd, ts, apartments) ==
    [id |-> id, area_id |-> area_id, population_density |-> pd,
     business_density |-> bd, transport_score |-> ts,
     apartment_count |-> apartments]

SeedAreas ==
    << Area(1, "Downtown LA", "Los Angeles", "34.0522", "-118.2437"),
       Area(2, "Beverly Hills", "Beverly Hills", "34.0736", "-118.4004"),
       Area(3, "Manhattan Beach", "Manhattan Beach", "33.8847", "-118.4109") >>

SeedMetrics ==
    << AreaMetric(1, 1, 12000, 120, 90, None),
       AreaMetric(2, 2, 6000, 80, 70, None),
       AreaMetric(3, 3, 9000, 60, 65, None) >>

seed == [areas |-> SeedAreas, metrics |-> SeedMetrics, next_metric_id |-> 4]

(***************************************************************************)
(* Olympic venues.  load_olympic_venues reads olympic_sports_venues.json,  *)
(* a static table of records with Location, Sport, Latitude and Longitude; *)
(* it returns [] when the file cannot be read.  Coordinates are JSON       *)
(* numbers, counted like the area coordinates in 1/10000 of a degree.      *)
(***************************************************************************)
Venue(location, sport, latitude, longitude) ==
    [Location |-> location, Sport |-> sport,
     Latitude |-> latitude, Longitude |-> longitude]

OlympicVenues ==
    << Venue("Stadium, Los Angeles, CA (LA Memorial Coliseum)", "Athletics",
             Some(340141), Some(-1182879)),
       Venue("Arena, Inglewood, CA (Kia Forum)", "Basketball",
             Some(339583), Some(-1183417)),
       Venue("Riviera Country Club, Pacific Palisades", "Golf",
             Some(340497), Some(-1185016)),
       Venue("Venue TBD", "Surfing", None, None) >>

MaxVenues == 22

\* a table with more venues than a response holds, at the sites of the first
\* three venues
ManyVenues ==
    [k \in 1..MaxVenues |->
        Venue("Arena " \o ToString(k) \o ", Los Angeles, CA",
              "Sport " \o ToString(k),
              OlympicVenues[(k % 3) + 1].Latitude,
              OlympicVenues[(k % 3) + 1].Longitude)]

\* the outcomes of load_olympic_venues: the table, or [] on a read failure
load_olympic_venues == {OlympicVenues, ManyVenues, <<>>}

\* venue.get(key) is truthy: present and not zero
VenueGet(venue, key) == venue[key] # None /\ Val(venue[key]) # 0

(***************************************************************************)
(* Haversine distance, in metres.  calculate_distance_km computes           *)
(*   a = sin(dlat/2)^2 + cos(lat1) cos(lat2) sin(dlon/2)^2                  *)
(*   c = 2 atan2(sqrt(a), sqrt(1 - a)),  R = 6371 km                        *)
(* on doubles.  DistanceTable holds the value for every ordered pair of    *)
(* the points of the model: the three venues, the three seeded areas and   *)
(* the antipodes of the first venue and of the first area.  For a point    *)
(* and its antipode a is 1 up to rounding; where the double a exceeds 1,   *)
(* math.sqrt(1 - a) raises ValueError: those pairs are in DomainErrors.    *)
(***************************************************************************)
DistanceTable ==
    ( <<340141, -1182879, 340141, -1182879>> :> 0 @@
      <<340141, -1182879, 339583, -1183417>> :> 7944 @@
      <<340141, -1182879, 340497, -1185016>> :> 20086 @@
      <<340141, -1182879, 340522, -1182437>> :> 5877 @@
      <<340141, -1182879, 340736, -1184004>> :> 12297 @@
      <<340141, -1182879, 338847, -1184109>> :> 18324 @@
      <<340141, -1182879, -340522, 617563>> :> 20009210 @@
      <<339583, -1183417, 340141, -1182879>> :> 7944 @@
      <<339583, -1183417, 339583, -1183417>> :> 0 @@
      <<339583, -1183417, 340497, -1185016>> :> 17904 @@
      <<339583, -1183417, 340522, -1182437>> :> 13807 @@
      <<339583, -1183417, 340736, -1184004>> :> 13916 @@
      <<339583, -1183417, 338847, -1184109>> :> 10380 @@
      <<339583, -1183417, -340141, 617121>> :> 20007143 @@
      <<339583, -1183417, -340522, 617563>> :> 20001280 @@
      <<340497, -1185016, 340141, -1182879>> :> 20086 @@
      <<340497, -1185016, 339583, -1183417>> :> 17904 @@
      <<340497, -1185016, 340497, -1185016>> :> 0 @@
      <<340497, -1185016, 340522, -1182437>> :> 23762 @@
      <<340497, -1185016, 340736, -1184004>> :> 9694 @@
      <<340497, -1185016, 338847, -1184109>> :> 20164 @@
      <<340497, -1185016, -340141, 617121>> :> 19995000 @@
      <<340497, -1185016, -340522, 617563>> :> 19991325 @@
      <<340522, -1182437, 340141, -1182879>> :> 5877 @@
      <<340522, -1182437, 339583, -1183417>> :> 13807 @@
      <<340522, -1182437, 340497, -1185016>> :> 23762 @@
      <<340522, -1182437, 340522, -1182437>> :> 0 @@
      <<340522, -1182437, 340736, -1184004>> :> 14629 @@
      <<340522, -1182437, 338847, -1184109>> :> 24179 @@
      <<340522, -1182437, -340141, 617121>> :> 20009210 @@
      <<340522, -1182437, -340522, 617563>> :> 20015087 @@
      <<340736, -1184004, 340141, -1182879>> :> 12297 @@
      <<340736, -1184004, 339583, -1183417>> :> 13916 @@
      <<340736, -1184004, 340497, -1185016>> :> 9694 @@
      <<340736, -1184004, 340522, -1182437>> :> 14629 @@
      <<340736, -1184004, 340736, -1184004>> :> 0 @@
      <<340736, -1184004, 338847, -1184109>> :> 21027 @@
      <<340736, -1184004, -340141, 617121>> :> 20002790 @@
      <<340736, -1184004, -340522, 617563>> :> 20000457 @@
      <<338847, -1184109, 340141, -1182879>> :> 18324 @@
      <<338847, -1184109, 339583, -1183417>> :> 10380 @@
      <<338847, -1184109, 340497, -1185016>> :> 20164 @@
      <<338847, -1184109, 340522, -1182437>> :> 24179 @@
      <<338847, -1184109, 340736, -1184004>> :> 21027 @@
      <<338847, -1184109, 338847, -1184109>> :> 0 @@
      <<338847, -1184109, -340141, 617121>> :> 19996763 @@
      <<338847, -1184109, -340522, 617563>> :> 19990907 @@
      <<-340141, 617121, 339583, -1183417>> :> 20007143 @@
      <<-340141, 617121, 340497, -1185016>> :> 19995000 @@
      <<-340141, 617121, 340522, -1182437>> :> 20009210 @@
      <<-340141, 617121, 340736, -1184004>> :> 20002790 @@
      <<-340141, 617121, 338847, -1184109>> :> 19996763 @@
      <<-340141, 617121, -340141, 617121>> :> 0 @@
      <<-340141, 617121, -340522, 617563>> :> 5877 @@
      <<-340522, 617563, 340141, -1182879>> :> 20009210 @@
      <<-340522, 617563, 339583, -1183417>> :> 20001280 @@
      <<-340522, 617563, 340497, -1185016>> :> 19991325 @@
      <<-340522, 617563, 340522, -1182437>> :> 20015087 @@
      <<-340522, 617563, 340736, -1184004>> :> 20000457 @@
      <<-340522, 617563, 338847, -1184109>> :> 19990907 @@
      <<-340522, 617563, -340141, 617121>> :> 5877 @@
      <<-340522, 617563, -340522, 617563>> :> 0 )

\* the ordered pairs for which math.sqrt(1 - a) raises
DomainErrors ==
    { <<340141, -1182879, -340141, 617121>>,
      <<-340141, 617121, 340141, -1182879>> }

calculate_distance_km(lat1, lon1, lat2, lon2) ==
    IF <<lat1, lon1, lat2, lon2>> \in DomainErrors THEN Raises("ValueError")
    ELSE Returns(DistanceTable[<<lat1, lon1, lat2, lon2>>])

\* miles * 1.60934, in centimetres (distances are compared in centimetres)
miles_to_km(miles) == miles * 160934

(***************************************************************************)
(* Proximity join.                                                         *)
(***************************************************************************)
\* AreaMetric(...) built in memory: the columns not given are None
NewAreaMetric(area_id, pd, bd, ts) == AreaMetric(0, area_id, pd, bd, ts, None)

MetricsOf(store, area_id) ==
    SelectSeq(store.metrics, LAMBDA m : m.area_id = area_id)

RECURSIVE OuterJoin(_, _)
\* db.query(Area, AreaMetric).outerjoin(...).all(): one row per area and
\* metric row of it, one row with no metric for an area without metric rows
OuterJoin(store, i) ==
    IF i > Len(store.areas) THEN <<>>
    ELSE LET area == store.areas[i]
             ms   == MetricsOf(store, area.id)
             rows == IF ms = <<>> THEN << <<area, None>> >>
                     ELSE [k \in 1..Len(ms) |-> <<area, Some(ms[k])>>]
         IN  rows \o OuterJoin(store, i + 1)

\* Mutant: an area at the same distance replaces the one found before.
NearestStepLastWins(row, venue_lat, venue_lon, best) ==
    Bind(<<ParseFloat(row[1].latitude), ParseFloat(row[1].longitude)>>,
      LAMBDA at :
        IF ~at[1].ok \/ ~at[2].ok THEN best
        ELSE Bind(calculate_distance_km(venue_lat, venue_lon,
                                        at[1].value, at[2].value),
               LAMBDA distance :
                 IF distance.exc # "none" THEN best
                 ELSE IF best = None \/ distance.value <= Val(best).distance
                 THEN Some([area |-> Some(row[1]), metric |-> row[2],
                            distance |-> distance.value])
                 ELSE best))

\* one pass of the scan loop over a joined row: best is None or
\* Some([area, metric, distance]); a row whose coordinates float() rejects,
\* or for which the distance raises, is passed over
NearestStep(row, venue_lat, venue_lon, best) ==
    Bind(<<ParseFloat(row[1].latitude), ParseFloat(row[1].longitude)>>,
      LAMBDA at :
        IF ~at[1].ok \/ ~at[2].ok THEN best
        ELSE Bind(calculate_distance_km(venue_lat, venue_lon,
                                        at[1].value, at[2].value),
               LAMBDA distance :
                 IF distance.exc # "none" THEN best
                 ELSE IF best = None \/ distance.value < Val(best).distance
                 THEN Some([area |-> Some(row[1]), metric |-> row[2],
                            distance |-> distance.value])
                 ELSE best))

RECURSIVE NearestScan(_, _, _, _, _)
\* the scan loop, from the i-th joined row on
NearestScan(rows, i, venue_lat, venue_lon, best) ==
    IF i > Len(rows) THEN best
    ELSE Bind(NearestStep(rows[i], venue_lat, venue_lon, best),
           LAMBDA nearer : NearestScan(rows, i + 1, venue_lat, venue_lon, nearer))

\* <<nearest_area, nearest_metric>>, each None or Some(row)
find_nearest_city_metrics(venue_lat, venue_lon, store) ==
    Bind(OuterJoin(store, 1), LAMBDA rows :
      IF rows = <<>> THEN <<None, None>>
      ELSE Bind(NearestScan(rows, 1, venue_lat, venue_lon, None), LAMBDA best :
             LET nearest_area   == IF best = None THEN None ELSE Val(best).area
                 nearest_metric == IF best = None THEN None ELSE Val(best).metric
             IN  IF nearest_area # None /\ nearest_metric = None
                 THEN <<nearest_area,
                        Some(NewAreaMetric(Val(nearest_area).id, 5000, 50, 70))>>
                 ELSE <<nearest_area, nearest_metric>>))

RECURSIVE NearestVenueScan(_, _, _, _, _)
\* the venue loop of is_within_radius_range: nearest_distance_km, None or
\* Some(distance), or the exception of the distance
NearestVenueScan(venues, i, lat, lon, nearest_distance_km) ==
    IF i > Len(venues) THEN Returns(nearest_distance_km)
    ELSE IF ~VenueGet(venues[i], "Latitude") \/ ~VenueGet(venues[i], "Longitude")
    THEN NearestVenueScan(venues, i + 1, lat, lon, nearest_distance_km)
    ELSE Bind(calculate_distance_km(lat, lon, Val(venues[i].Latitude),
                                    Val(venues[i].Longitude)),
           LAMBDA distance_km :
             IF distance_km.exc # "none" THEN distance_km
             ELSE IF nearest_distance_km = None
                     \/ distance_km.value < Val(nearest_distance_km)
             THEN NearestVenueScan(venues, i + 1, lat, lon,
                                   Some(distance_km.value))
             ELSE NearestVenueScan(venues, i + 1, lat, lon, nearest_distance_km))

\* Mutant: the upper bound of the two-sided test is exclusive.
IsWithinRadiusRangeExclusive(lat, lon, radius_min_miles, radius_max_miles, venues) ==
    IF venues = <<>> THEN Returns(TRUE)
    ELSE IF radius_min_miles = None /\ radius_max_miles = None
    THEN Returns(TRUE)
    ELSE Bind(NearestVenueScan(venues, 1, lat, lon, None),
           LAMBDA scan :
             IF scan.exc # "none" THEN scan
             ELSE IF scan.value = None THEN Returns(TRUE)
             ELSE LET d == 100 * Val(scan.value)
                  IN  Returns(
                      IF radius_min_miles # None /\ radius_max_miles # None
                      THEN /\ miles_to_km(Val(radius_min_miles)) <= d
                           /\ d < miles_to_km(Val(radius_max_miles))
                      ELSE IF radius_max_miles # None
                      THEN d <= miles_to_km(Val(radius_max_miles))
                      ELSE IF radius_min_miles # None
                      THEN d >= miles_to_km(Val(radius_min_miles))
                      ELSE FALSE))

\* radii are whole miles or None
is_within_radius_range(lat, lon, radius_min_miles, radius_max_miles, venues) ==
    IF venues = <<>> THEN Returns(TRUE)
    ELSE IF radius_min_miles = None /\ radius_max_miles = None
    THEN Returns(TRUE)
    ELSE Bind(NearestVenueScan(venues, 1, lat, lon, None),
           LAMBDA scan :
             IF scan.exc # "none" THEN scan
             ELSE IF scan.value = None THEN Returns(TRUE)
             ELSE LET d == 100 * Val(scan.value)
                  IN  Returns(
                      IF radius_min_miles # None /\ radius_max_miles # None
                      THEN /\ miles_to_km(Val(radius_min_miles)) <= d
                           /\ d <= miles_to_km(Val(radius_max_miles))
                      ELSE IF radius_max_miles # None
                      THEN d <= miles_to_km(Val(radius_max_miles))
                      ELSE IF radius_min_miles # None
                      THEN d >= miles_to_km(Val(radius_min_miles))
                      ELSE FALSE))

(***************************************************************************)
(* Reason generator.                                                       *)
(***************************************************************************)
ReasonTerms == {"restaurant", "food", "dining", "pizza"}

\* Mutant: the generic note is appended to every list.
ReasonsAndFallback(reasons) ==
    Append(reasons, "Good business potential based on local metrics")

\* if not reasons: reasons.append(...)
ReasonsOrFallback(reasons) ==
    IF reasons = <<>>
    THEN << "Good business potential based on local metrics" >>
    ELSE reasons

_generate_search_reasons(query, area_name, metric) ==
    LET direct == IF Contains(Lower(area_name), query)
                  THEN << "Direct match for '" \o query \o "'" >> ELSE <<>>
        population ==
            IF metric.population_density > 10000
            THEN << "High population density - great for foot traffic" >>
            ELSE IF metric.population_density > 7000
            THEN << "Good population density for business" >>
            ELSE <<>>
        business ==
            IF metric.business_density > 80
            THEN << "High business density - established commercial area" >>
            ELSE IF metric.business_density > 60
            THEN << "Moderate business density - growing commercial area" >>
            ELSE <<>>
        transport ==
            IF metric.transport_score > 80
            THEN << "Excellent public transportation access" >>
            ELSE IF metric.transport_score > 60
            THEN << "Good public transportation connectivity" >>
            ELSE <<>>
        dining ==
            IF AnyTermIn(ReasonTerms, Lower(query))
            THEN (IF metric.population_density > 8000
                  THEN << "High foot traffic ideal for restaurants" >>
                  ELSE <<>>)
                 \o (IF metric.business_density > 70
                     THEN << "Established dining scene with competition" >>
                     ELSE <<>>)
            ELSE <<>>
    IN  ReasonsOrFallback(direct \o population \o business \o transport
                          \o dining)

(***************************************************************************)
(* Responses.                                                              *)
(***************************************************************************)
LocationRecommendation(area, sport, venue_location, score, reasons, coordinates, metric_fields) ==
    [area |-> area, sport |-> sport, venue_location |-> venue_location,
     score |-> score, reasons |-> reasons, coordinates |-> coordinates,
     business_density |-> metric_fields.business_density,
     population_density |-> metric_fields.population_density,
     transport_score |-> metric_fields.transport_score,
     apartment_count |-> metric_fields.apartment_count]

APIResponse(success, data, message) ==
    [status |-> 200, success |-> success, data |-> data, message |-> message]

HTTPException(status_code, detail) ==
    [status |-> status_code, detail |-> detail]

\* int(x) if x else None
IntOrNone(x) == IF x # None /\ Val(x) # 0 THEN x ELSE None

MetricFields(metric) ==
    [business_density |-> metric.business_density,
     population_density |-> metric.population_density,
     transport_score |-> metric.transport_score,
     apartment_count |-> IntOrNone(metric.apartment_count)]

RECURSIVE Strip(_)
Strip(s) ==
    IF Len(s) > 0 /\ SubSeq(s, 1, 1) = " " THEN Strip(SubSeq(s, 2, Len(s)))
    ELSE IF Len(s) > 0 /\ SubSeq(s, Len(s), Len(s)) = " "
    THEN Strip(SubSeq(s, 1, Len(s) - 1))
    ELSE s

\* the venue name shown for a location string
VenueName(location) ==
    IF IndexOf(location, "(") > 0 /\ IndexOf(location, ")") > 0
    THEN SubSeq(location, IndexOf(location, "(") + 1, IndexOf(location, ")") - 1)
    ELSE IF IndexOf(location, ",") > 0
    THEN Strip(SubSeq(location, 1, IndexOf(location, ",") - 1))
    ELSE location

\* the place of recs[i] after the sort: behind every record of a higher
\* score and behind the earlier records of the same score
PlaceByScore(recs, i) ==
    Cardinality({ j \in 1..Len(recs) :
                    \/ recs[j].score > recs[i].score
                    \/ recs[j].score = recs[i].score /\ j < i }) + 1

\* the results of the passes of a loop, every pass evaluated once
Passes(n, Body(_)) == SubSeq([i \in 1..n |-> Body(i)], 1, n)

RECURSIVE Extend(_, _)
\* the records the passes from the i-th on appended, in the order of the loop
Extend(passes, i) ==
    IF i > Len(passes) THEN <<>>
    ELSE passes[i] \o Extend(passes, i + 1)

RECURSIVE ExtendValues(_, _)
ExtendValues(passes, i) ==
    IF i > Len(passes) THEN <<>>
    ELSE passes[i].value \o ExtendValues(passes, i + 1)

\* a loop inside a try block: the exception of the first pass that raised,
\* or the records all the passes appended
TryPasses(passes) ==
    IF \E i \in 1..Len(passes) : passes[i].exc # "none"
    THEN passes[CHOOSE i \in 1..Len(passes) :
                    /\ passes[i].exc # "none"
                    /\ \A j \in 1..(i - 1) : passes[j].exc = "none"]
    ELSE Returns(ExtendValues(passes, 1))

\* Mutant: the records stay in the order of the loop.
SortByScoreUnsorted(recs) == recs

\* recs.sort(key=score, reverse=True): stable, highest score first
SortByScore(recs) ==
    Bind(Passes(Len(recs), LAMBDA i : PlaceByScore(recs, i)), LAMBDA place :
      SubSeq([p \in 1..Len(recs) |->
                 recs[CHOOSE i \in 1..Len(recs) : place[i] = p]],
             1, Len(recs)))

Take(list, n) == SubSeq(list, 1, Min(n, Len(list)))

(***************************************************************************)
(* POST /search.                                                           *)
(***************************************************************************)
SearchLimit == 20

\* the record of a venue that matched, a list of one or no record
SearchRecord(venue, query_lower, nearest_metric, search_score) ==
    IF search_score > 0
    THEN << LocationRecommendation(VenueName(venue.Location),
                Some(venue.Sport), Some(venue.Location), search_score,
                _generate_search_reasons(query_lower, venue.Location,
                                         nearest_metric),
                <<Val(venue.Longitude), Val(venue.Latitude)>>,
                MetricFields(nearest_metric)) >>
    ELSE <<>>

\* the scoring steps of the venue loop, shared by /search and
\* /search/advanced
ScoreVenue(venue, query_lower, business_type, nearest_area, nearest_metric) ==
    Bind(_score_from_metrics(nearest_metric), LAMBDA base_score :
      Bind(_calculate_search_score(query_lower, venue.Location,
               IF nearest_area # None THEN Val(nearest_area).name
               ELSE venue.Location,
               business_type, base_score, nearest_metric),
           LAMBDA search_score :
             SearchRecord(venue, query_lower, nearest_metric, search_score)))

\* the body of the venue loop of search_locations: the records appended
SearchVenue(venue, query_lower, business_type, store) ==
    Bind(find_nearest_city_metrics(Val(venue.Latitude), Val(venue.Longitude),
                                   store),
         LAMBDA nearest :
           IF nearest[1] = None \/ nearest[2] = None
           THEN ScoreVenue(venue, query_lower, business_type, nearest[1],
                           NewAreaMetric(0, 5000, 50, 70))
           ELSE ScoreVenue(venue, query_lower, business_type, nearest[1],
                           Val(nearest[2])))

\* the venue loop of search_locations, from the i-th venue on
SearchLoop(venues, i, query_lower, business_type, store) ==
    Bind(Passes(Len(venues), LAMBDA k :
           IF ~VenueGet(venues[k], "Latitude") \/ ~VenueGet(venues[k], "Longitude")
           THEN <<>>
           ELSE SearchVenue(venues[k], query_lower, business_type, store)),
         LAMBDA passes : Extend(passes, i))

search_locations(search_query, venues, store) ==
    IF venues = <<>>
    THEN APIResponse(FALSE, [recommendations |-> <<>>], "No Olympic venues found")
    ELSE Bind(SearchLoop(venues, 1, Lower(search_query.query),
                         search_query.business_type, store),
           LAMBDA found :
             Bind(SortByScore(found), LAMBDA sorted :
               LET recs == Take(sorted, SearchLimit)
               IN  APIResponse(TRUE, [recommendations |-> recs],
                       "Found " \o ToString(Len(recs))
                       \o " Olympic venues matching '"
                       \o search_query.query \o "'")))

(***************************************************************************)
(* POST /search/advanced.                                                  *)
(***************************************************************************)
\* the filter step of the venue loop: the exception of _passes_filters, no
\* record for a rejected venue, or the record of the scoring steps
FilterVenue(venue, query_lower, business_type, filters, nearest_area, nearest_metric) ==
    Bind(IF nearest_area # None
         THEN _passes_filters(Val(nearest_area), nearest_metric, filters)
         ELSE Returns(TRUE),
         LAMBDA passes :
           IF passes.exc # "none" THEN passes
           ELSE IF ~passes.value THEN Returns(<<>>)
           ELSE Returns(ScoreVenue(venue, query_lower, business_type,
                                   nearest_area, nearest_metric)))

\* the body of the venue loop of advanced_search_locations: the records
\* appended, or the exception that leaves the loop
AdvancedVenue(venue, query_lower, business_type, filters, store) ==
    Bind(find_nearest_city_metrics(Val(venue.Latitude), Val(venue.Longitude),
                                   store),
         LAMBDA nearest :
           IF nearest[1] = None \/ nearest[2] = None
           THEN FilterVenue(venue, query_lower, business_type, filters, None,
                            NewAreaMetric(0, 5000, 50, 70))
           ELSE FilterVenue(venue, query_lower, business_type, filters,
                            nearest[1], Val(nearest[2])))

\* the venue loop of advanced_search_locations, from the i-th venue on
AdvancedLoop(venues, i, query_lower, business_type, filters, store) ==
    Bind(Passes(Len(venues), LAMBDA k :
           IF k < i \/ ~VenueGet(venues[k], "Latitude")
                    \/ ~VenueGet(venues[k], "Longitude")
           THEN Returns(<<>>)
           ELSE AdvancedVenue(venues[k], query_lower, business_type,
                              filters, store)),
         TryPasses)

advanced_search_locations(search_query, filters, venues, store) ==
    IF venues = <<>>
    THEN APIResponse(FALSE, [recommendations |-> <<>>], "No Olympic venues found")
    ELSE Bind(AdvancedLoop(venues, 1, Lower(search_query.query),
                           search_query.business_type, filters, store),
           LAMBDA loop :
             IF loop.exc # "none"
             THEN HTTPException(500, "Advanced search failed: " \o loop.exc)
             ELSE Bind(SortByScore(loop.value), LAMBDA sorted :
                    LET recs == Take(sorted, SearchLimit)
                    IN  APIResponse(TRUE, [recommendations |-> recs],
                            "Found " \o ToString(Len(recs))
                            \o " Olympic venues matching '"
                            \o search_query.query
                            \o "' with applied filters")))

(***************************************************************************)
(* The OpenAI service.  An outcome of the service is a record              *)
(*   available : whether OPENAI_API_KEY was set when the service was built *)
(*   intent    : [error |-> TRUE] (the call or json.loads raised) or the   *)
(*               parsed answer of the intent prompt                        *)
(*   recs      : [error |-> TRUE] or the parsed "recommendations" list     *)
(* key_factors of an answer is [kind |-> "list", items |-> ...], or        *)
(* [kind |-> "null"] for JSON null, or [kind |-> "number"] for a JSON      *)
(* number where a list was asked for.                                      *)
(***************************************************************************)
SearchContext(query, business_type, user_intent, location_preferences, business_requirements) ==
    [query |-> query, business_type |-> business_type,
     user_intent |-> user_intent,
     location_preferences |-> location_preferences,
     business_requirements |-> business_requirements]

AIRecommendation(area_name, confidence_score, reasoning, key_factors, business_insights) ==
    [area_name |-> area_name, confidence_score |-> confidence_score,
     reasoning |-> reasoning, key_factors |-> key_factors,
     business_insights |-> business_insights]

ListOf(items) == [kind |-> "list", items |-> items]

\* f"{business_type}"
Format(business_type) ==
    IF business_type = None THEN "None" ELSE Val(business_type)

_fallback_intent_analysis(query, business_type) ==
    LET query_lower == Lower(query)
        location_prefs ==
            IF AnyTermIn({"beach", "coastal", "waterfront"}, query_lower)
            THEN <<"beach", "coastal">>
            ELSE IF AnyTermIn({"downtown", "urban", "city", "center"}, query_lower)
            THEN <<"urban", "downtown">>
            ELSE IF AnyTermIn({"suburban", "family", "quiet"}, query_lower)
            THEN <<"suburban", "family-friendly">>
            ELSE <<>>
        requirements ==
            (IF AnyTermIn({"foot traffic", "busy", "crowded"}, query_lower)
             THEN <<"high foot traffic">> ELSE <<>>)
            \o (IF AnyTermIn({"accessible", "metro", "transit"}, query_lower)
                THEN <<"good accessibility">> ELSE <<>>)
            \o (IF AnyTermIn({"competition", "established"}, query_lower)
                THEN <<"established commercial area">> ELSE <<>>)
    IN  SearchContext(query, business_type,
            "Looking for " \o Format(business_type) \o " location",
            location_prefs, requirements)

analyze_search_intent(query, business_type, ai) ==
    IF ~ai.available THEN _fallback_intent_analysis(query, business_type)
    ELSE IF ai.intent.error
    THEN _fallback_intent_analysis(query, business_type)
    ELSE SearchContext(query, business_type, ai.intent.user_intent,
                       ai.intent.location_preferences,
                       ai.intent.business_requirements)

FallbackTop == 5

RECURSIVE Join(_, _)
\* sep.join(parts)
Join(parts, sep) ==
    IF parts = <<>> THEN ""
    ELSE IF Len(parts) = 1 THEN parts[1]
    ELSE parts[1] \o sep \o Join(Tail(parts), sep)

FallbackRecommendation(area, search_context) ==
    LET reasoning_parts ==
            (IF area.population_density > 10000
             THEN <<"High population density for customer base">> ELSE <<>>)
            \o (IF area.transport_score > 60
                THEN <<"Good public transportation access">> ELSE <<>>)
            \o (IF area.business_density > 80
                THEN <<"Established commercial area">> ELSE <<>>)
        reasoning == IF reasoning_parts # <<>> THEN Join(reasoning_parts, "; ")
                     ELSE "Good business potential"
    IN  AIRecommendation(area.area, Min(100, area.score), reasoning,
            ListOf(<<"Population density", "Transportation",
                     "Business environment">>),
            "Suitable for " \o Format(search_context.business_type)
            \o " based on local metrics")

_fallback_recommendations(areas_data, search_context) ==
    LET top == Take(areas_data, FallbackTop)
    IN  [k \in 1..Len(top) |-> FallbackRecommendation(top[k], search_context)]

generate_ai_recommendations(areas_data, search_context, ai) ==
    IF ~ai.available THEN _fallback_recommendations(areas_data, search_context)
    ELSE IF ai.recs.error
    THEN _fallback_recommendations(areas_data, search_context)
    ELSE ai.recs.list

(***************************************************************************)
(* POST /search/ai.                                                        *)
(***************************************************************************)
AiTopAreas == 10
AiLimit == 15
AiFactorLimit == 3
AiReasonLimit == 4

\* the entry appended to areas_data for an area that matched, or the
\* exception of float() on its coordinates
AreaEntry(area, metric, search_score) ==
    IF search_score > 0
    THEN Bind(<<ParseFloat(area.longitude), ParseFloat(area.latitude)>>,
           LAMBDA at :
             IF ~at[1].ok \/ ~at[2].ok THEN Raises("ValueError")
             ELSE Returns(<< [area |-> area.name, score |-> search_score,
                              population_density |-> metric.population_density,
                              business_density |-> metric.business_density,
                              transport_score |-> metric.transport_score,
                              apartment_count |-> IntOrNone(metric.apartment_count),
                              coordinates |-> <<at[1].value, at[2].value>>] >>))
    ELSE Returns(<<>>)

ScoreArea(area, metric, query_lower, business_type) ==
    Bind(_score_from_metrics(metric), LAMBDA base_score :
      Bind(_calculate_search_score(query_lower, area.name, area.city,
                                   business_type, base_score, metric),
           LAMBDA search_score : AreaEntry(area, metric, search_score)))

\* the body of the first loop of ai_search_locations for one joined row
AiArea(area, joined_metric, query_lower, business_type) ==
    IF joined_metric = None
    THEN ScoreArea(area, NewAreaMetric(area.id, 5000, 50, 75), query_lower,
                   business_type)
    ELSE ScoreArea(area, Val(joined_metric), query_lower, business_type)

\* the first loop of ai_search_locations, from the i-th joined row on
AiAreasLoop(rows, i, query_lower, business_type) ==
    Bind(Passes(Len(rows), LAMBDA k :
           IF k < i THEN Returns(<<>>)
           ELSE AiArea(rows[k][1], rows[k][2], query_lower, business_type)),
         TryPasses)

\* next((a for a in areas_data if a["area"] == name), None)
FirstNamed(areas_data, name) ==
    IF \E k \in 1..Len(areas_data) : areas_data[k].area = name
    THEN Some(areas_data[CHOOSE k \in 1..Len(areas_data) :
                  /\ areas_data[k].area = name
                  /\ \A j \in 1..(k - 1) : areas_data[j].area # name])
    ELSE None

\* reasoning, at most three key factors, business insights
AiReasons(ai_rec) ==
    (IF ai_rec.reasoning # "" THEN <<ai_rec.reasoning>> ELSE <<>>)
    \o (IF ai_rec.key_factors.kind = "list"
        THEN Take(ai_rec.key_factors.items, AiFactorLimit) ELSE <<>>)
    \o (IF ai_rec.business_insights # ""
        THEN <<ai_rec.business_insights>> ELSE <<>>)

\* Mutant: the reasons of the AI are kept however few they are.
AiRecordNoFallback(ai_rec, areas_data, query_lower) ==
    Bind(FirstNamed(areas_data, ai_rec.area_name), LAMBDA found :
      IF found = None THEN Returns(<<>>)
      ELSE IF ai_rec.key_factors.kind = "number" THEN Raises("TypeError")
      ELSE Returns(<< LocationRecommendation(ai_rec.area_name, None, None,
                          ai_rec.confidence_score,
                          Take(AiReasons(ai_rec), AiReasonLimit),
                          Val(found).coordinates, Val(found)) >>))

\* the body of the second loop for one AI recommendation
AiRecord(ai_rec, areas_data, query_lower) ==
    Bind(FirstNamed(areas_data, ai_rec.area_name), LAMBDA found :
      IF found = None THEN Returns(<<>>)
      ELSE IF ai_rec.key_factors.kind = "number" THEN Raises("TypeError")
      ELSE Bind(IF Len(AiReasons(ai_rec)) < 2
                THEN _generate_search_reasons(query_lower, ai_rec.area_name,
                         NewAreaMetric(0, Val(found).population_density,
                                       Val(found).business_density,
                                       Val(found).transport_score))
                ELSE AiReasons(ai_rec),
             LAMBDA reasons :
               Returns(<< LocationRecommendation(ai_rec.area_name, None, None,
                              ai_rec.confidence_score,
                              Take(reasons, AiReasonLimit),
                              Val(found).coordinates, Val(found)) >>)))

\* the second loop of ai_search_locations, from the i-th recommendation on
AiRecordsLoop(ai_recommendations, i, areas_data, query_lower) ==
    Bind(Passes(Len(ai_recommendations), LAMBDA k :
           IF k < i THEN Returns(<<>>)
           ELSE AiRecord(ai_recommendations[k], areas_data, query_lower)),
         TryPasses)

\* the response of the AI path
AiResponse(search_query, search_context, ai, recs) ==
    APIResponse(TRUE,
        [recommendations |-> recs,
         ai_insights |->
             [user_intent |-> search_context.user_intent,
              location_preferences |-> search_context.location_preferences,
              business_requirements |-> search_context.business_requirements,
              ai_available |-> ai.available]],
        "AI-powered search found " \o ToString(Len(recs))
        \o " locations matching '" \o search_query.query \o "'")

\* from the sorted areas_data on: the AI call, the second loop, sort and cap
AiRank(search_query, search_context, query_lower, ai, venues, store, areas_data) ==
    Bind(generate_ai_recommendations(Take(areas_data, AiTopAreas),
                                     search_context, ai),
         LAMBDA ai_recommendations :
           Bind(AiRecordsLoop(ai_recommendations, 1, areas_data, query_lower),
                LAMBDA loop :
                  IF loop.exc # "none"
                  THEN search_locations(search_query, venues, store)
                  ELSE Bind(SortByScore(loop.value), LAMBDA sorted :
                         AiResponse(search_query, search_context, ai,
                                    Take(sorted, AiLimit)))))

\* the try block after the intent analysis; an exception falls back to
\* search_locations
AiSearch(search_query, search_context, query_lower, ai, venues, store) ==
    Bind(OuterJoin(store, 1), LAMBDA areas_with_metrics :
      Bind(AiAreasLoop(areas_with_metrics, 1, query_lower,
                       search_query.business_type),
           LAMBDA areas :
             IF areas.exc # "none"
             THEN search_locations(search_query, venues, store)
             ELSE Bind(SortByScore(areas.value), LAMBDA areas_data :
                    AiRank(search_query, search_context, query_lower, ai,
                           venues, store, areas_data))))

ai_search_locations(search_query, ai, venues, store) ==
    Bind(analyze_search_intent(search_query.query, search_query.business_type,
                               ai),
         LAMBDA search_context :
           AiSearch(search_query, search_context, Lower(search_query.query), ai,
                    venues, store))

(***************************************************************************)
(* Inputs of the pure functions.                                           *)
(***************************************************************************)
MaxQueryTerms == 2

QueryWords == {"beach", "transit"}

RECURSIVE QueriesOf(_)
\* the lower-cased queries of at most n words
QueriesOf(n) ==
    IF n = 0 THEN {""}
    ELSE LET shorter == QueriesOf(n - 1)
         IN  shorter \cup
             { IF q = "" THEN w ELSE q \o " " \o w :
                   q \in shorter, w \in QueryWords }

Queries ==
    QueriesOf(MaxQueryTerms)
    \cup {"all", "search", "downtown", "hills", "dense", "best", "business",
          "transit business", "xyzxyz123", "la"}

\* (area_name, city_name) as the endpoints pass them
NamePairs ==
    { <<"Downtown LA", "Los Angeles">>,
      <<"Beverly Hills", "Beverly Hills">>,
      <<"Manhattan Beach", "Manhattan Beach">>,
      <<"Stadium, Inglewood, CA (SoFi Stadium)", "Inglewood">> }

BusinessTypes == {None, Some("restaurant"), Some("Cafe"), Some("retail")}

\* One density per tier of the cascade (thresholds 5000, 7000, 8000, 10000),
\* and business density / transport score (in tenths) pairs covering the
\* tiers 60, 80 and 4.0, 6.0, 8.0.
PopulationDensities == {5000, 7500, 9000, 12000}
DensityAndTransport == {<<50, 30>>, <<70, 50>>, <<90, 70>>, <<90, 90>>, <<50, 90>>}

MetricInputs ==
    { AreaMetric(0, 0, pd, bt[1], bt[2], None) :
        pd \in PopulationDensities, bt \in DensityAndTransport }

\* out-of-range metrics for the normaliser
WideMetricInputs ==
    { AreaMetric(0, 0, pd, 50, ts, None) :
        pd \in PopulationDensities \cup {0, 1800, 15000, 999999},
        ts \in {-20, 0, 30, 50, 65, 70, 90, 100, 120} }

\* base scores in tenths, within the normaliser's range 0..100
BaseScores == {0, 1, 25, 48, 67, 84, 96}

ScoreCalls ==
    { [query |-> q, area_name |-> np[1], city_name |-> np[2],
       business_type |-> bt, base_score |-> b, metric |-> m] :
        q \in Queries, np \in NamePairs, bt \in BusinessTypes,
        b \in BaseScores, m \in MetricInputs }

InitScore ==
    /\ db = seed
    /\ pc = "call"
    /\ ret = Pending
    /\ \/ /\ fn = "_score_from_metrics"
          /\ args \in { [metric |-> m] : m \in WideMetricInputs }
       \/ /\ fn = "_calculate_search_score"
          /\ args \in ScoreCalls

Apply_score_from_metrics ==
    /\ pc = "call"
    /\ fn = "_score_from_metrics"
    /\ ret' = Returns(_score_from_metrics(args.metric))
    /\ pc' = "done"
    /\ UNCHANGED <<fn, args, db>>

Apply_calculate_search_score ==
    /\ pc = "call"
    /\ fn = "_calculate_search_score"
    /\ ret' = Returns(_calculate_search_score(args.query, args.area_name,
                          args.city_name, args.business_type,
                          args.base_score, args.metric))
    /\ pc' = "done"
    /\ UNCHANGED <<fn, args, db>>

NextScore == Apply_score_from_metrics \/ Apply_calculate_search_score

SpecScore == InitScore /\ [][NextScore]_vars

(***************************************************************************)
(* Claims about the metric normaliser.                                     *)
(***************************************************************************)
Done(f) == pc = "done" /\ fn = f

\* r is x/250 rounded to the nearest integer
IsRoundedOf(r, x) == 2 * r * 250 - 250 <= 2 * x /\ 2 * x <= 2 * r * 250 + 250

\* The weighted sum of the clamped inputs, times 250, in tenths:
\* 10 * (0.6 * P/1500 + 0.4 * T/10) = (P + 100 T) / 250.
WeightedSumX250(metric) ==
    LET P == Max(0, Min(15000, metric.population_density))
        T == Max(0, Min(100, metric.transport_score))
    IN  P + 100 * T

NormaliserFormulaHolds ==
    Done("_score_from_metrics") =>
        /\ ret.exc = "none"
        /\ IsRoundedOf(ret.value, WeightedSumX250(args.metric))
        /\ ret.value \in 0..100

DowntownExample(base) ==
    /\ Done("_calculate_search_score")
    /\ args.query = "downtown" /\ args.area_name = "Downtown LA"
    /\ args.metric.population_density = 12000
    /\ args.metric.transport_score = 90
    /\ args.base_score = base

\* C7 (as stated): _score_from_metrics returns round1(0.6 * clamp(pd/1500,
\* 0, 10) + 0.4 * clamp(ts, 0, 10)), a value in [0,10] for every metric; for
\* population_density = 12000 and transport_score = 9.0 it returns 9.6, and
\* the name-match score of "downtown" against "Downtown LA" is 10.0.
C7_AsStated ==
    /\ NormaliserFormulaHolds
    /\ (/\ Done("_score_from_metrics")
        /\ args.metric.population_density = 12000
        /\ args.metric.transport_score = 90) => ret = Returns(96)
    /\ DowntownExample(96) => ret = Returns(100)

\* C7 (amended): the formula and the range hold for every metric, also out
\* of range ones; for population_density = 12000 and transport_score = 9.0
\* the result is 8.4 (12000/1500 is 8, not 10), and the name-match score of
\* "downtown" against "Downtown LA" with that base score is 10.0.
C7_BaseScore ==
    /\ NormaliserFormulaHolds
    /\ (/\ Done("_score_from_metrics")
        /\ args.metric.population_density = 12000
        /\ args.metric.transport_score = 90) => ret = Returns(84)
    /\ DowntownExample(84) => ret = Returns(100)

\* An out-of-range metric has been normalised.
C7_Witness ==
    /\ Done("_score_from_metrics")
    /\ args.metric.population_density = 999999
    /\ args.metric.transport_score = -20
    /\ ret = Returns(60)

(***************************************************************************)
(* Claims about the lexical scoring engine.  The rule table below is the   *)
(* cascade as the specification words it: ten rules, each a condition and  *)
(* a multiplier in tenths; the business type is compared in lower case.    *)
(***************************************************************************)
Rule2Types  == {"restaurant", "food", "dining", "pizza", "cafe"}
Rule3Terms  == {"beach", "coastal", "waterfront"}
Rule3Names  == {"beach", "coast", "marina"}
Rule4Terms  == {"downtown", "urban", "city", "center"}
Rule4Names  == {"downtown", "center", "city"}
Rule5Terms  == {"hills", "hillside", "mountain"}
Rule5Names  == {"hills", "heights", "ridge"}
Rule6Terms  == {"high", "dense", "busy", "crowded"}
Rule7Terms  ==
    {"transit", "transport", "metro", "bus", "rail", "subway", "accessible",
     "connectivity"}
Rule8Terms  == {"best", "top", "excellent", "great"}
Rule9Terms  == {"business", "commercial", "retail", "office", "store", "shop"}
Rule10Queries == {"all", "show", "list", "find", "search", ""}

HasTerm(terms, text) == \E t \in terms : Contains(text, t)

NameMatches(a) ==
    \/ Contains(Lower(a.area_name), a.query)
    \/ Contains(Lower(a.city_name), a.query)

RestaurantStyle(a) ==
    /\ a.business_type # None
    /\ Lower(Val(a.business_type)) \in Rule2Types

RuleHolds(i, a) ==
    CASE i = 1  -> NameMatches(a)
      [] i = 2  -> RestaurantStyle(a)
      [] i = 3  -> HasTerm(Rule3Terms, a.query)
      [] i = 4  -> HasTerm(Rule4Terms, a.query)
      [] i = 5  -> HasTerm(Rule5Terms, a.query)
      [] i = 6  -> HasTerm(Rule6Terms, a.query)
      [] i = 7  -> HasTerm(Rule7Terms, a.query)
      [] i = 8  -> HasTerm(Rule8Terms, a.query)
      [] i = 9  -> HasTerm(Rule9Terms, a.query)
      [] i = 10 -> a.query \in Rule10Queries

Tier3(x, hi, mid, mHi, mMid, mLow) ==
    IF x > hi THEN mHi ELSE IF x > mid THEN mMid ELSE mLow

RuleMultiplier(i, a) ==
    LET name == Lower(a.area_name)
        pd   == a.metric.population_density
    IN  CASE i = 1  -> 15
          [] i = 2  -> Tier3(pd, 8000, 5000, 13, 11, 8)
          [] i = 3  -> IF HasTerm(Rule3Names, name) THEN 14 ELSE 3
          [] i = 4  -> IF HasTerm(Rule4Names, name) THEN 13
                       ELSE IF pd > 10000 THEN 12 ELSE 7
          [] i = 5  -> IF HasTerm(Rule5Names, name) THEN 13 ELSE 5
          [] i = 6  -> Tier3(pd, 10000, 7000, 14, 12, 6)
          [] i = 7  -> IF a.metric.transport_score > 80 THEN 15
                       ELSE Tier3(a.metric.transport_score, 60, 40, 13, 11, 5)
          [] i = 8  -> Tier3(a.base_score, 70, 50, 12, 10, 8)
          [] i = 9  -> Tier3(a.metric.business_density, 80, 60, 13, 11, 9)
          [] i = 10 -> 10

MatchingRules(a) == { i \in 1..10 : RuleHolds(i, a) }

Least(S) == CHOOSE i \in S : \A j \in S : i <= j

\* round1(clamp(b * m, 0, 10)), b and m in tenths
Round1Clamped(b, m) == RoundProduct(Min(1000, Max(0, b * m)), b, m)

ScoreDone == Done("_calculate_search_score")

\* C1: _calculate_search_score returns round1(clamp(base * m, 0, 10)) with m
\* the multiplier of the first rule, in the order 1..10, whose condition
\* holds, and 0 when no rule holds; later rules contribute nothing.
C1_FirstMatchWins ==
    ScoreDone =>
        LET matching == MatchingRules(args)
        IN  ret = Returns(IF matching = {} THEN 0
                          ELSE Round1Clamped(args.base_score,
                                   RuleMultiplier(Least(matching), args)))

\* Rules 7 and 9 both hold and the result is that of rule 7 alone.
C1_Witness ==
    /\ ScoreDone
    /\ args.query = "transit business"
    /\ MatchingRules(args) = {7, 9}
    /\ args.metric.transport_score = 90
    /\ args.metric.business_density = 90
    /\ args.base_score = 48
    /\ ret = Returns(72)

BeachAndTransitQuery(a) ==
    /\ HasTerm(Rule3Terms, a.query)
    /\ HasTerm(Rule7Terms, a.query)
    /\ ~HasTerm(Rule3Names, Lower(a.area_name))

\* C2 (as stated): a query with a beach term and a transit term, against a
\* name without beach/coast/marina, is scored by rule 3 with multiplier
\* 0.3 and not by the transit rule.
C2_AsStated ==
    (ScoreDone /\ BeachAndTransitQuery(args)) =>
        ret = Returns(Round1Clamped(args.base_score, 3))

\* C2 (amended): the same, provided the business type is not a
\* restaurant-style type (rule 2 precedes rule 3) and the query is not a
\* substring of the candidate name or the city name (rule 1).
C2_BeachBeforeTransit ==
    (/\ ScoreDone
     /\ BeachAndTransitQuery(args)
     /\ ~RestaurantStyle(args)
     /\ ~NameMatches(args)) =>
        ret = Returns(Round1Clamped(args.base_score, 3))

\* "beach transit" against "Downtown LA" for a retail business: 4.8 * 0.3.
C2_Witness ==
    /\ ScoreDone
    /\ args.query = "beach transit"
    /\ args.area_name = "Downtown LA"
    /\ args.business_type = Some("retail")
    /\ args.metric.transport_score = 90
    /\ args.base_score = 48
    /\ ret = Returns(14)

NoRuleApplies(a) ==
    /\ \A i \in 3..9 : ~RuleHolds(i, a)
    /\ a.query \notin Rule10Queries
    /\ ~NameMatches(a)
    /\ ~RestaurantStyle(a)

\* C3: the score is exactly 0 when the query contains no category term, is
\* no pass-through query, is no substring of the candidate or city name,
\* and the business type is not restaurant-style.
C3_NoMatchIsZero == (ScoreDone /\ NoRuleApplies(args)) => ret = Returns(0)

C3_Witness ==
    /\ ScoreDone
    /\ args.query = "xyzxyz123"
    /\ args.business_type = Some("retail")
    /\ args.base_score = 84
    /\ NoRuleApplies(args)
    /\ ret = Returns(0)

\* C4: for a query that is exactly one of the pass-through queries (the
\* empty string among them) and a business type that is not
\* restaurant-style, the base score is returned unmodified, for every
\* candidate name and city name.
C4_PassThroughKeepsBase ==
    (/\ ScoreDone
     /\ args.query \in Rule10Queries
     /\ ~RestaurantStyle(args)) => ret = Returns(args.base_score)

\* C6: for a base score in [0,10] the returned score lies in [0,10]; scores
\* are counted in tenths, so the value is a whole number of tenths.
C6_ScoreInRange ==
    (ScoreDone /\ args.base_score \in 0..100) =>
        /\ ret.exc = "none"
        /\ ret.value \in 0..100

\* The x1.5 boost of a base score of 8.4 is capped at 10.0.
C6_Witness ==
    /\ ScoreDone
    /\ SearchMultiplier(args.query, args.area_name, args.city_name,
                        args.business_type, args.base_score, args.metric) = 15
    /\ args.base_score = 84
    /\ ret = Returns(100)

(***************************************************************************)
(* Inputs of the filter engine.                                            *)
(***************************************************************************)
AdvancedFilters(counties, pd, bd, ts, apartments, radius, map_bounds) ==
    [counties |-> counties,
     population_density_min |-> pd[1], population_density_max |-> pd[2],
     business_density_min |-> bd[1], business_density_max |-> bd[2],
     transport_score_min |-> ts[1], transport_score_max |-> ts[2],
     apartment_count_min |-> apartments[1],
     apartment_count_max |-> apartments[2],
     radius_miles_min |-> radius[1], radius_miles_max |-> radius[2],
     map_bounds |-> map_bounds]

Ranges(low, high) == {None, Some(low)} \X {None, Some(high)}

\* a box around the Los Angeles basin, and dicts that leave sides unset
MapBoundsInputs ==
    { None,
      Some([k \in {} |-> 0]),
      Some([k \in {"north"} |-> 340000]),
      Some([north |-> 350000, south |-> 330000,
            east |-> -1170000, west |-> -1190000]) }

CountiesInputs == {None, Some(<<>>), Some(<<"Orange County">>)}

FilterInputs ==
    { AdvancedFilters(c, pd, bd, ts, ap, <<None, None>>, mb) :
        c \in CountiesInputs, pd \in Ranges(6000, 10000),
        bd \in Ranges(60, 100), ts \in Ranges(75, 80),
        ap \in {None, Some(0), Some(10000)} \X {None, Some(15000)},
        mb \in MapBoundsInputs }

FilterAreas ==
    { Area(1, "Downtown LA", "Los Angeles", "34.0522", "-118.2437"),
      Area(4, "Anaheim", "Anaheim", "33.8366", "-117.9143"),
      Area(5, "Ventura", "Ventura", "34.2805", "-119.2945") }

FilterMetrics ==
    { AreaMetric(0, 0, pd, 50, 70, ap) :
        pd \in {5000, 12000},
        ap \in {None, Some(0), Some(12000), Some(20000)} }

InitFilter ==
    /\ db = seed
    /\ pc = "call"
    /\ ret = Pending
    /\ fn = "_passes_filters"
    /\ args \in { [area |-> a, metric |-> m, filters |-> f] :
                    a \in FilterAreas, m \in FilterMetrics, f \in FilterInputs }

Apply_passes_filters ==
    /\ pc = "call"
    /\ fn = "_passes_filters"
    /\ ret' = _passes_filters(args.area, args.metric, args.filters)
    /\ pc' = "done"
    /\ UNCHANGED <<fn, args, db>>

NextFilter == Apply_passes_filters

SpecFilter == InitFilter /\ [][NextFilter]_vars

(***************************************************************************)
(* The filter predicates as the specification words them.                  *)
(***************************************************************************)
FilterDone == pc = "done" /\ fn = "_passes_filters"

Within(v, low, high) ==
    /\ low = None \/ v >= Val(low)
    /\ high = None \/ v <= Val(high)

CountyHolds(a, f) ==
    \/ f.counties = None
    \/ Val(f.counties) = <<>>
    \/ /\ a.name \in DOMAIN COUNTY_MAPPING
       /\ \E i \in 1..Len(Val(f.counties)) :
              Val(f.counties)[i] = COUNTY_MAPPING[a.name]

MetricRangesHold(m, f) ==
    /\ Within(m.population_density,
              f.population_density_min, f.population_density_max)
    /\ Within(m.business_density,
              f.business_density_min, f.business_density_max)
    /\ Within(m.transport_score,
              f.transport_score_min, f.transport_score_max)

ApartmentHolds(m, f) ==
    \/ m.apartment_count = None
    \/ Within(Val(m.apartment_count),
              f.apartment_count_min, f.apartment_count_max)

Side(box, key, default) == IF key \in DOMAIN box THEN box[key] ELSE default

BoxConfigured(f) == f.map_bounds # None /\ DOMAIN Val(f.map_bounds) # {}

BoxHolds(a, f) ==
    \/ ~BoxConfigured(f)
    \/ LET box == Val(f.map_bounds)
           lat == ParseFloat(a.latitude).value
           lon == ParseFloat(a.longitude).value
       IN  /\ Side(box, "south", -900000) <= lat
           /\ lat <= Side(box, "north", 900000)
           /\ Side(box, "west", -1800000) <= lon
           /\ lon <= Side(box, "east", 1800000)

\* C8 as stated: _passes_filters returns true exactly when the county, the
\* three metric ranges, the apartment range and the bounding box all hold,
\* and false otherwise; the store is left as it was.
C8_PureConjunction ==
    FilterDone =>
        /\ ret = Returns(/\ CountyHolds(args.area, args.filters)
                         /\ MetricRangesHold(args.metric, args.filters)
                         /\ ApartmentHolds(args.metric, args.filters)
                         /\ BoxHolds(args.area, args.filters))
        /\ db = seed

\* C9: a metric without an apartment count is never rejected by the
\* apartment range, whatever apartment_count_min and apartment_count_max are
\* (the call returns true when the other predicates hold and no bounding box
\* is configured), while a metric whose apartment count exists and lies
\* outside the range is rejected.
C9_MissingApartmentsPass ==
    FilterDone =>
        /\ ( /\ args.metric.apartment_count = None
             /\ CountyHolds(args.area, args.filters)
             /\ MetricRangesHold(args.metric, args.filters) )
           => /\ ret # Returns(FALSE)
              /\ ~BoxConfigured(args.filters) => ret = Returns(TRUE)
        /\ ( /\ args.metric.apartment_count # None
             /\ ~ApartmentHolds(args.metric, args.filters) )
           => ret = Returns(FALSE)

C9_Witness ==
    /\ FilterDone
    /\ args.metric.apartment_count = None
    /\ args.filters.apartment_count_min = Some(10000)
    /\ args.filters.apartment_count_max = Some(15000)
    /\ args.filters.counties = Some(<<"Orange County">>)
    /\ args.area.name = "Anaheim"
    /\ args.filters.population_density_min = Some(6000)
    /\ ret = Returns(TRUE)

(***************************************************************************)
(* The service: requests against the store.  A request is handled in one   *)
(* step (the handlers do not yield between reading the store and           *)
(* answering); Respond returns the answer and frees the worker.  Requests   *)
(* against the long venue table and against an unreadable venue file are   *)
(* made with the query "all", which every venue matches.  The store        *)
(* is shared with the ETL jobs and other clients of the database, which    *)
(* add and remove metric rows.                                             *)
(***************************************************************************)
SearchQuery(query, business_type) ==
    [query |-> query, business_type |-> business_type]

RequestQueries == {"Beach", "all", "xyzxyz123"}

SearchQueries ==
    { SearchQuery(q, bt) :
        q \in RequestQueries, bt \in {Some("restaurant"), Some("retail")} }

NoRange == <<None, None>>

NoFilters ==
    AdvancedFilters(None, NoRange, NoRange, NoRange, NoRange, NoRange, None)

AdvancedFilterInputs ==
    { NoFilters,
      AdvancedFilters(Some(<<"Los Angeles County">>), NoRange, NoRange,
                      NoRange, NoRange, NoRange, None),
      AdvancedFilters(None, <<Some(6000), None>>, NoRange, <<None, Some(80)>>,
                      NoRange, NoRange, None),
      AdvancedFilters(None, NoRange, NoRange, NoRange,
                      <<Some(10000), None>>, NoRange, None),
      AdvancedFilters(None, NoRange, NoRange, NoRange, NoRange,
                      <<Some(1), Some(5)>>, None),
      AdvancedFilters(None, NoRange, NoRange, NoRange, NoRange, NoRange,
                      Some([north |-> 350000, south |-> 330000,
                            east |-> -1170000, west |-> -1190000])),
      AdvancedFilters(None, NoRange, NoRange, NoRange, NoRange, NoRange,
                      Some([north |-> 370000, south |-> 360000,
                            east |-> -1140000, west |-> -1160000])) }

AiFailed == [error |-> TRUE]

\* the length of the longest answer of the recommendation prompt
MaxAiAnswer == 16

AiIntent ==
    [error |-> FALSE, user_intent |-> "open a shop near the games",
     location_preferences |-> <<"urban">>, business_requirements |-> <<>>]

AiAnswers ==
    { <<>>,
      << AIRecommendation("Downtown LA", 95, "Dense and central",
             ListOf(<<"Foot traffic", "Transit", "Offices", "Nightlife">>),
             "Lease early") >>,
      << AIRecommendation("Atlantis", 90, "Not on the map", ListOf(<<>>), ""),
         AIRecommendation("Beverly Hills", 120, "", [kind |-> "null"], ""),
         AIRecommendation("Manhattan Beach", 70, "Close to the pier",
             ListOf(<<>>), "") >>,
      << AIRecommendation("Downtown LA", 80, "Central",
             [kind |-> "number"], "") >>,
      [k \in 1..MaxAiAnswer |->
          AIRecommendation(SeedAreas[(k % 3) + 1].name, 40 + ((7 * k) % 50),
              "Option " \o ToString(k), ListOf(<<>>), "Compare rents")] }

AiOutcomes ==
    { [available |-> FALSE, intent |-> AiFailed, recs |-> AiFailed],
      [available |-> TRUE, intent |-> AiFailed, recs |-> AiFailed] }
    \cup { [available |-> TRUE, intent |-> AiIntent,
            recs |-> [error |-> FALSE, list |-> answer]] : answer \in AiAnswers }

NoRequest == [none |-> TRUE]

Init ==
    /\ db = seed
    /\ pc = "idle"
    /\ fn = "none"
    /\ args = NoRequest
    /\ ret = Pending

PostSearch ==
    /\ pc = "idle"
    /\ \E q \in SearchQueries, venues \in load_olympic_venues :
          /\ venues # OlympicVenues => q.query = "all"
          /\ args' = [search_query |-> q, venues |-> venues]
          /\ ret' = search_locations(q, venues, db)
    /\ fn' = "search_locations"
    /\ pc' = "done"
    /\ UNCHANGED db

PostSearchAdvanced ==
    /\ pc = "idle"
    /\ \E q \in SearchQueries, f \in AdvancedFilterInputs,
          venues \in load_olympic_venues :
          /\ venues # OlympicVenues => q.query = "all"
          /\ venues = <<>> => f = NoFilters
          /\ args' = [search_query |-> q, filters |-> f, venues |-> venues]
          /\ ret' = advanced_search_locations(q, f, venues, db)
    /\ fn' = "advanced_search_locations"
    /\ pc' = "done"
    /\ UNCHANGED db

PostSearchAi ==
    /\ pc = "idle"
    /\ \E q \in SearchQueries, ai \in AiOutcomes,
          venues \in load_olympic_venues :
          /\ venues # OlympicVenues => q.query = "all"
          /\ args' = [search_query |-> q, ai |-> ai, venues |-> venues]
          /\ ret' = ai_search_locations(q, ai, venues, db)
    /\ fn' = "ai_search_locations"
    /\ pc' = "done"
    /\ UNCHANGED db

\* POST /seed-db: seed() empties both tables and fills them again
seed_database ==
    /\ pc = "idle"
    /\ db' = seed
    /\ fn' = "seed_database"
    /\ args' = NoRequest
    /\ ret' = [status |-> 200, message |-> "Database seeded successfully"]
    /\ pc' = "done"

Respond ==
    /\ pc = "done"
    /\ pc' = "idle"
    /\ fn' = "none"
    /\ args' = NoRequest
    /\ ret' = Pending
    /\ UNCHANGED db

MaxMetricId == 4

StoreMetricInputs == { <<0, 20, 2, None>>, <<9000, 90, 80, Some(12000)>> }

\* another client of the database inserts a metric row for an area
StoreInsertMetric ==
    /\ pc = "idle"
    /\ db.next_metric_id <= MaxMetricId
    /\ \E i \in 1..Len(db.areas), m \in StoreMetricInputs :
          db' = [db EXCEPT
                   !.metrics = Append(@, AreaMetric(db.next_metric_id,
                                   db.areas[i].id, m[1], m[2], m[3], m[4])),
                   !.next_metric_id = @ + 1]
    /\ UNCHANGED <<fn, args, pc, ret>>

MaxDeleted == 1

\* another client of the database removes a metric row
StoreDeleteMetric ==
    /\ pc = "idle"
    /\ db.next_metric_id - Len(db.metrics) <= MaxDeleted
    /\ \E k \in 1..Len(db.metrics) :
          db' = [db EXCEPT !.metrics = SubSeq(@, 1, k - 1)
                                       \o SubSeq(@, k + 1, Len(@))]
    /\ UNCHANGED <<fn, args, pc, ret>>

\* a row whose latitude was stored empty
MalformedArea == Area(4, "Pasadena", "Pasadena", "", "-118.1445")

\* another client of the database inserts an area row with a coordinate text
\* that is not a number
StoreInsertArea ==
    /\ pc = "idle"
    /\ \A i \in 1..Len(db.areas) : db.areas[i].id # MalformedArea.id
    /\ db' = [db EXCEPT !.areas = Append(@, MalformedArea)]
    /\ UNCHANGED <<fn, args, pc, ret>>

Next ==
    \/ PostSearch
    \/ PostSearchAdvanced
    \/ PostSearchAi
    \/ seed_database
    \/ Respond
    \/ StoreInsertMetric
    \/ StoreDeleteMetric
    \/ StoreInsertArea

Spec == Init /\ [][Next]_vars

(***************************************************************************)
(* Claims about the search endpoints.                                      *)
(***************************************************************************)
SearchDone == pc = "done" /\ fn = "search_locations"

AdvancedDone == pc = "done" /\ fn = "advanced_search_locations"

AiDone == pc = "done" /\ fn = "ai_search_locations"

Answered == ret.status = 200 /\ ret.success

Recommendations == ret.data.recommendations

HasCoordinates(venue) ==
    /\ venue.Latitude # None /\ Val(venue.Latitude) # 0
    /\ venue.Longitude # None /\ Val(venue.Longitude) # 0

NearestOf(venue) ==
    find_nearest_city_metrics(Val(venue.Latitude), Val(venue.Longitude), db)

\* the metric a venue is scored with: that of its nearest area
MetricOf(venue) ==
    LET nearest == NearestOf(venue)
    IN  IF nearest[1] = None \/ nearest[2] = None
        THEN AreaMetric(0, 0, 5000, 50, 70, None)
        ELSE Val(nearest[2])

\* the scoring call of the venue loop for a venue
ScoringCall(venue) ==
    LET nearest == NearestOf(venue)
        metric  == MetricOf(venue)
    IN  [query |-> Lower(args.search_query.query),
         area_name |-> venue.Location,
         city_name |-> IF nearest[1] = None THEN venue.Location
                       ELSE Val(nearest[1]).name,
         business_type |-> args.search_query.business_type,
         base_score |-> _score_from_metrics(metric),
         metric |-> metric]

Listed(venue) ==
    \E k \in 1..Len(Recommendations) :
        Recommendations[k].venue_location = Some(venue.Location)

\* the filters of /search/advanced accept the venue
Accepted(venue) ==
    LET nearest == NearestOf(venue)
    IN  \/ nearest[1] = None
        \/ _passes_filters(Val(nearest[1]), MetricOf(venue), args.filters)
               = Returns(TRUE)

WithoutMetric(area) == \A k \in 1..Len(db.metrics) : db.metrics[k].area_id # area.id

\* the area a record of the answer stands for: the area nearest to the venue
\* of a venue record, the area named by a city record
AreaOfRecord(rec) ==
    IF rec.venue_location # None
    THEN LET venue == CHOOSE v \in {args.venues[i] : i \in 1..Len(args.venues)} :
                          v.Location = Val(rec.venue_location)
         IN  NearestOf(venue)[1]
    ELSE IF \E i \in 1..Len(db.areas) : db.areas[i].name = rec.area
    THEN Some(db.areas[CHOOSE i \in 1..Len(db.areas) : db.areas[i].name = rec.area])
    ELSE None

ReportsDefaultMetric(rec) ==
    /\ rec.population_density = 5000
    /\ rec.business_density = 50
    /\ rec.transport_score = 70
    /\ rec.apartment_count = None

MaxAreas == 3

\* rows of the areas table: three seeded rows, a row with the coordinates of
\* Downtown LA, and two rows whose coordinate texts are not numbers
ProximityAreas ==
    { SeedAreas[1], SeedAreas[2], SeedAreas[3],
      Area(4, "Los Angeles", "Los Angeles", "34.0522", "-118.2437"),
      Area(5, "Pasadena", "Pasadena", "", "-118.1445"),
      Area(6, "Malibu", "Malibu", "34.0736", "n/a") }

RECURSIVE AreaLists(_)
\* the lists of at most n different rows
AreaLists(n) ==
    IF n = 0 THEN { <<>> }
    ELSE LET shorter == AreaLists(n - 1)
         IN  shorter \cup
             UNION { { Append(l, a) :
                         a \in { x \in ProximityAreas :
                                   \A i \in 1..Len(l) : l[i] # x } } :
                     l \in { x \in shorter : Len(x) = n - 1 } }

\* the metric rows of a store: none, one row per area, or a second row for
\* the first area as well
MetricRows(areas, rows_of_first) ==
    IF rows_of_first = 0 THEN <<>>
    ELSE [k \in 1..Len(areas) |->
             AreaMetric(k, areas[k].id, 6000 + 1000 * k, 80, 70, None)]
         \o (IF rows_of_first = 2 /\ areas # <<>>
             THEN << AreaMetric(Len(areas) + 1, areas[1].id, 12000, 120, 90, None) >>
             ELSE <<>>)

ProximityStores ==
    { [areas |-> l, metrics |-> MetricRows(l, n),
       next_metric_id |-> Len(MetricRows(l, n)) + 1] :
        l \in AreaLists(MaxAreas), n \in 0..2 }

VenuePoints ==
    { <<Val(OlympicVenues[i].Latitude), Val(OlympicVenues[i].Longitude)>> :
        i \in 1..3 }

\* the points handed to is_within_radius_range: the seeded areas and the
\* site of the first venue
RadiusPoints ==
    { <<340522, -1182437>>, <<340736, -1184004>>, <<338847, -1184109>>,
      <<340141, -1182879>> }

RadiusMiles == {None, Some(0), Some(4), Some(8), Some(13)}

VenueLists ==
    { <<>>, OlympicVenues, << OlympicVenues[4] >>, << OlympicVenues[1] >>,
      << OlympicVenues[3], OlympicVenues[4], OlympicVenues[2] >> }

ReasonQueries == {"", "downtown", "pizza", "best restaurant", "xyzxyz123"}

InitProximity ==
    /\ pc = "call"
    /\ ret = Pending
    /\ \/ /\ fn = "find_nearest_city_metrics"
          /\ db \in ProximityStores
          /\ args \in { [venue_lat |-> p[1], venue_lon |-> p[2]] : p \in VenuePoints }
       \/ /\ fn = "is_within_radius_range"
          /\ db = seed
          /\ args \in { [lat |-> p[1], lon |-> p[2], radius_min_miles |-> lo,
                         radius_max_miles |-> hi, venues |-> vs] :
                          p \in RadiusPoints, lo \in RadiusMiles,
                          hi \in RadiusMiles, vs \in VenueLists }
       \/ /\ fn = "_generate_search_reasons"
          /\ db = seed
          /\ args \in { [query |-> q, area_name |-> np[1], metric |-> m] :
                          q \in ReasonQueries, np \in NamePairs,
                          m \in MetricInputs }

Apply_find_nearest_city_metrics ==
    /\ pc = "call"
    /\ fn = "find_nearest_city_metrics"
    /\ ret' = Returns(find_nearest_city_metrics(args.venue_lat, args.venue_lon, db))
    /\ pc' = "done"
    /\ UNCHANGED <<fn, args, db>>

Apply_is_within_radius_range ==
    /\ pc = "call"
    /\ fn = "is_within_radius_range"
    /\ ret' = is_within_radius_range(args.lat, args.lon,
                  args.radius_min_miles, args.radius_max_miles, args.venues)
    /\ pc' = "done"
    /\ UNCHANGED <<fn, args, db>>

Apply_generate_search_reasons ==
    /\ pc = "call"
    /\ fn = "_generate_search_reasons"
    /\ ret' = Returns(_generate_search_reasons(args.query, args.area_name,
                                               args.metric))
    /\ pc' = "done"
    /\ UNCHANGED <<fn, args, db>>

NextProximity ==
    \/ Apply_find_nearest_city_metrics
    \/ Apply_is_within_radius_range
    \/ Apply_generate_search_reasons

SpecProximity == InitProximity /\ [][NextProximity]_vars

(***************************************************************************)
(* Claims about the proximity join.                                        *)
(***************************************************************************)
\* the joined rows in the order the scan reads them
JoinedRows == OuterJoin(db, 1)

\* both coordinate texts of the area of row i are numbers
Usable(i) ==
    /\ ParseFloat(JoinedRows[i][1].latitude).ok
    /\ ParseFloat(JoinedRows[i][1].longitude).ok

UsableRows == { i \in 1..Len(JoinedRows) : Usable(i) }

DistanceOfRow(i) ==
    calculate_distance_km(args.venue_lat, args.venue_lon,
                          ParseFloat(JoinedRows[i][1].latitude).value,
                          ParseFloat(JoinedRows[i][1].longitude).value).value

\* row i is at minimum distance, and no earlier usable row is as near
FirstNearest(i) ==
    /\ i \in UsableRows
    /\ \A j \in UsableRows : DistanceOfRow(i) <= DistanceOfRow(j)
    /\ \A j \in UsableRows : j < i => DistanceOfRow(j) > DistanceOfRow(i)

\* C11: find_nearest_city_metrics returns the area at minimum distance among
\* the areas whose coordinates parse; rows with unparsable coordinates are
\* skipped; of equidistant areas the first in the input sequence is returned;
\* the result is (None, None) when no area is usable.
C11_NearestFirstSeen ==
    Done("find_nearest_city_metrics") =>
        IF UsableRows = {}
        THEN ret = Returns(<<None, None>>)
        ELSE /\ ret.exc = "none"
             /\ \E i \in UsableRows :
                   /\ FirstNearest(i)
                   /\ ret.value[1] = Some(JoinedRows[i][1])

\* a scan that skipped a malformed row and then met two equidistant areas
C11_Witness ==
    /\ Done("find_nearest_city_metrics")
    /\ Len(db.areas) = 3
    /\ ~Usable(1)
    /\ \E i, j \in UsableRows :
          /\ i < j
          /\ JoinedRows[i][1].id # JoinedRows[j][1].id
          /\ FirstNearest(i)
          /\ DistanceOfRow(j) = DistanceOfRow(i)
          /\ ret.value[1] = Some(JoinedRows[i][1])

(***************************************************************************)
(* Claims about the radius test.                                           *)
(***************************************************************************)
UsableVenues ==
    { i \in 1..Len(args.venues) : HasCoordinates(args.venues[i]) }

DistanceToVenue(i) ==
    calculate_distance_km(args.lat, args.lon, Val(args.venues[i].Latitude),
                          Val(args.venues[i].Longitude)).value

\* the distance to the single nearest venue, in metres
NearestVenueDistance ==
    DistanceToVenue(CHOOSE i \in UsableVenues :
                        \A j \in UsableVenues : DistanceToVenue(i) <= DistanceToVenue(j))

\* C13: is_within_radius_range is true for an empty venue list, for venues
\* without usable coordinates and when neither bound is given; otherwise it
\* compares the distance d to the nearest venue with the bounds given,
\* inclusively: min x 1.60934 <= d and d <= max x 1.60934; a minimum of 0 is
\* a given bound.
C13_RadiusRange ==
    Done("is_within_radius_range") =>
        ret = Returns(
            IF \/ args.venues = <<>>
               \/ UsableVenues = {}
               \/ (args.radius_min_miles = None /\ args.radius_max_miles = None)
            THEN TRUE
            ELSE /\ args.radius_min_miles # None =>
                        Val(args.radius_min_miles) * 160934
                            <= 100 * NearestVenueDistance
                 /\ args.radius_max_miles # None =>
                        100 * NearestVenueDistance
                            <= Val(args.radius_max_miles) * 160934)

\* a point on the site of the nearest of several venues, with both bounds 0:
\* the distance equals both bounds and the test passes
C13_Witness ==
    /\ Done("is_within_radius_range")
    /\ Cardinality(UsableVenues) > 1
    /\ args.radius_min_miles = Some(0)
    /\ args.radius_max_miles = Some(0)
    /\ NearestVenueDistance = 0
    /\ ret = Returns(TRUE)

(***************************************************************************)
(* Claims about the reason generator.                                      *)
(***************************************************************************)
GenericNote == "Good business potential based on local metrics"

RestaurantQuery == AnyTermIn({"restaurant", "food", "dining", "pizza"}, Lower(args.query))

\* the notes in their fixed order, each with the condition under which it
\* applies
NoteTable ==
    << <<"Direct match for '" \o args.query \o "'",
         Contains(Lower(args.area_name), args.query)>>,
       <<"High population density - great for foot traffic",
         args.metric.population_density > 10000>>,
       <<"Good population density for business",
         args.metric.population_density > 7000
            /\ args.metric.population_density <= 10000>>,
       <<"High business density - established commercial area",
         args.metric.business_density > 80>>,
       <<"Moderate business density - growing commercial area",
         args.metric.business_density > 60 /\ args.metric.business_density <= 80>>,
       <<"Excellent public transportation access",
         args.metric.transport_score > 80>>,
       <<"Good public transportation connectivity",
         args.metric.transport_score > 60 /\ args.metric.transport_score <= 80>>,
       <<"High foot traffic ideal for restaurants",
         RestaurantQuery /\ args.metric.population_density > 8000>>,
       <<"Established dining scene with competition",
         RestaurantQuery /\ args.metric.business_density > 70>> >>

ApplicableNotes == { k \in 1..Len(NoteTable) : NoteTable[k][2] }

\* list holds exactly the applicable notes, in the order of the table
InTableOrder(list) ==
    /\ Len(list) = Cardinality(ApplicableNotes)
    /\ \A p \in 1..Len(list) :
          \E k \in ApplicableNotes :
              /\ list[p] = NoteTable[k][1]
              /\ Cardinality({ j \in ApplicableNotes : j < k }) = p - 1

\* C20: _generate_search_reasons returns a non-empty list in the fixed order
\* direct match, population tier, business tier, transport tier, restaurant
\* notes; the generic note is present exactly when no other note applies, and
\* it is then the only entry.
C20_ReasonsOrdered ==
    Done("_generate_search_reasons") =>
        /\ ret.exc = "none"
        /\ Len(ret.value) > 0
        /\ IF ApplicableNotes = {}
           THEN ret.value = << GenericNote >>
           ELSE /\ InTableOrder(ret.value)
                /\ \A p \in 1..Len(ret.value) : ret.value[p] # GenericNote

\* a call to which a note of every group applies
C20_Witness ==
    /\ Done("_generate_search_reasons")
    /\ args.query = "pizza"
    /\ Len(ret.value) = 5
    /\ ret.value[1] = "High population density - great for foot traffic"
    /\ ret.value[5] = "Established dining scene with competition"

(***************************************************************************)
(* Claims about historical metric rows.                                    *)
(***************************************************************************)
\* the metric row of an area with the highest id
LatestMetric(area) ==
    LET rows == MetricsOf(db, area.id)
    IN  rows[CHOOSE k \in 1..Len(rows) : \A j \in 1..Len(rows) : rows[j].id <= rows[k].id]

ReportsMetric(rec, metric) ==
    /\ rec.population_density = metric.population_density
    /\ rec.business_density = metric.business_density
    /\ rec.transport_score = metric.transport_score

RankingStores ==
    { seed,
      [seed EXCEPT !.metrics = << AreaMetric(4, 1, 0, 20, 2, None),
                                  SeedMetrics[2], SeedMetrics[3] >>,
                   !.next_metric_id = 5],
      [seed EXCEPT !.areas = Append(@, MalformedArea)] }

InitRanking ==
    /\ db \in RankingStores
    /\ pc = "idle"
    /\ fn = "none"
    /\ args = NoRequest
    /\ ret = Pending

NextRanking ==
    \/ PostSearch
    \/ PostSearchAdvanced
    \/ PostSearchAi
    \/ Respond

SpecRanking == InitRanking /\ [][NextRanking]_vars

(***************************************************************************)
(* Claims about order and size of an answer.                               *)
(***************************************************************************)
NonIncreasing(recs) ==
    \A k \in 1..(Len(recs) - 1) : recs[k].score >= recs[k + 1].score

\* the answer was built by the AI path of /search/ai
AiPathAnswer == AiDone /\ "ai_insights" \in DOMAIN ret.data

\* the score the venue loop gives a venue
CandidateScore(venue) ==
    Bind(ScoringCall(venue), LAMBDA call :
      _calculate_search_score(call.query, call.area_name, call.city_name,
                              call.business_type, call.base_score, call.metric))

\* the venues that qualify for the answer of /search or /search/advanced
Candidates ==
    { i \in 1..Len(args.venues) :
        /\ HasCoordinates(args.venues[i])
        /\ CandidateScore(args.venues[i]) > 0
        /\ AdvancedDone => Accepted(args.venues[i]) }

\* the answer of a venue search holds candidates only, each once, and no
\* candidate left out scores higher than a record of the answer
TopScored ==
    /\ \A k \in 1..Len(Recommendations) :
          \E i \in Candidates :
              /\ Recommendations[k].venue_location = Some(args.venues[i].Location)
              /\ Recommendations[k].score = CandidateScore(args.venues[i])
    /\ Len(Recommendations) = Min(SearchLimit, Cardinality(Candidates))
    /\ \A i \in Candidates :
          ~Listed(args.venues[i]) =>
              \A k \in 1..Len(Recommendations) :
                  CandidateScore(args.venues[i]) <= Recommendations[k].score

C15_ScoresInRange ==
    ((SearchDone \/ AdvancedDone \/ AiDone) /\ ret.status = 200) =>
        \A k \in 1..Len(Recommendations) :
            /\ Recommendations[k].score >= 0
            /\ Recommendations[k].score <= 100

\* the service as it is without an API key
AiDisabled == [available |-> FALSE, intent |-> AiFailed, recs |-> AiFailed]

\* the answer of the recommendation prompt holds a number where the list of
\* key factors was asked for
MalformedAnswer(ai) ==
    /\ ~ai.recs.error
    /\ \E k \in 1..Len(ai.recs.list) : ai.recs.list[k].key_factors.kind = "number"

\* the re-ranking call was made and failed, or its answer is malformed
AiCallFailed(ai) == ai.available /\ (ai.recs.error \/ MalformedAnswer(ai))

\* load_olympic_venues read the venue table
VenuesRead == args.venues # <<>>

\* the answer of /search/ai to the request of the state, had the AI service
\* been disabled
DisabledAnswer ==
    ai_search_locations(args.search_query, AiDisabled, args.venues, db)

\* C16 as stated: when the re-ranking call fails or answers malformed,
\* /search/ai (the venue table read) succeeds with the recommendations of
\* the successful answer it gives when the AI service is disabled.
C16_FailureEqualsDisabled ==
    (AiDone /\ VenuesRead /\ AiCallFailed(args.ai) /\ DisabledAnswer.success) =>
        /\ ret.status = 200
        /\ ret.success
        /\ Recommendations = DisabledAnswer.data.recommendations

\* a record for a city, as the AI path builds it
CityRecord(rec) == rec.sport = None /\ rec.venue_location = None

\* C17 as stated: however /search/ai (the venue table read) comes to its
\* answer (AI path, AI disabled, AI call failed, exception handler), the
\* answer has the shape of the AI path: city records together with the
\* ai_insights object.
C17_FallbackHasAiShape ==
    (AiDone /\ VenuesRead) =>
        /\ ret.status = 200
        /\ "ai_insights" \in DOMAIN ret.data
        /\ \A k \in 1..Len(Recommendations) : CityRecord(Recommendations[k])

(***************************************************************************)
(* Claims about bad records and empty results.                             *)
(***************************************************************************)
WellFormed(area) ==
    ParseFloat(area.latitude).ok /\ ParseFloat(area.longitude).ok

\* the store without the area rows whose coordinates are not numbers
WithoutBadAreas(store) ==
    [store EXCEPT !.areas = SelectSeq(@, WellFormed)]

\* the answer of the handler that ran, had it read the given store
AnswerOn(store) ==
    IF SearchDone THEN search_locations(args.search_query, args.venues, store)
    ELSE IF AdvancedDone
    THEN advanced_search_locations(args.search_query, args.filters,
                                   args.venues, store)
    ELSE ai_search_locations(args.search_query, args.ai, args.venues, store)

\* C18 as stated: an area with malformed coordinates is skipped and nothing
\* else changes: every search request (the venue table read) answers as it
\* does on the store without that area.
C18_BadRecordSkipped ==
    ((SearchDone \/ AdvancedDone \/ AiDone) /\ VenuesRead
         /\ db # WithoutBadAreas(db)) =>
        ret = AnswerOn(WithoutBadAreas(db))

\* the filters, as the specification words them, accept the area and metric
\* of a venue
FiltersHold(venue) ==
    LET nearest == NearestOf(venue)
    IN  \/ nearest[1] = None
        \/ /\ CountyHolds(Val(nearest[1]), args.filters)
           /\ MetricRangesHold(MetricOf(venue), args.filters)
           /\ ApartmentHolds(MetricOf(venue), args.filters)
           /\ BoxHolds(Val(nearest[1]), args.filters)

\* no rule of the cascade applies to an area for the query of the request
AreaUnmatched(area) ==
    MatchingRules([query |-> Lower(args.search_query.query),
                   area_name |-> area.name, city_name |-> area.city,
                   business_type |-> args.search_query.business_type]) = {}

\* the venue table was read, and the query matches no candidate or the
\* filters exclude every candidate
NothingQualifies ==
    /\ VenuesRead
    /\ IF AiDone
       THEN \A i \in 1..Len(db.areas) : AreaUnmatched(db.areas[i])
       ELSE \A i \in 1..Len(args.venues) :
                HasCoordinates(args.venues[i]) =>
                    \/ MatchingRules(ScoringCall(args.venues[i])) = {}
                    \/ AdvancedDone /\ ~FiltersHold(args.venues[i])

\* C19 as stated: a search that matches nothing, or whose filters exclude
\* everything, answers success=true with an empty list, never with an error.
C19_EmptyResultSucceeds ==
    ((SearchDone \/ AdvancedDone \/ AiDone) /\ NothingQualifies) =>
        /\ ret.status = 200
        /\ ret.success
        /\ Recommendations = <<>>

(***************************************************************************)
(* Single keyword queries: every term of the term lists of                 *)
(* _calculate_search_score, used alone as the query, for a business type   *)
(* that is not a restaurant-style type.                                    *)
(***************************************************************************)
KeywordQueries ==
    BeachQueryTerms \cup UrbanQueryTerms \cup HillQueryTerms
    \cup DenseQueryTerms \cup TransitQueryTerms \cup BestQueryTerms
    \cup BusinessQueryTerms

KeywordCalls ==
    { [query |-> q, area_name |-> np[1], city_name |-> np[2],
       business_type |-> bt, base_score |-> 48, metric |-> m] :
        q \in KeywordQueries, np \in NamePairs,
        bt \in {None, Some("retail")}, m \in MetricInputs }

InitKeyword ==
    /\ db = seed
    /\ pc = "call"
    /\ ret = Pending
    /\ fn = "_calculate_search_score"
    /\ args \in KeywordCalls

Apply_keyword_query ==
    /\ pc = "call"
    /\ fn = "_calculate_search_score"
    /\ ret' = Returns(_calculate_search_score(args.query, args.area_name,
                          args.city_name, args.business_type,
                          args.base_score, args.metric))
    /\ pc' = "done"
    /\ UNCHANGED <<fn, args, db>>

NextKeyword == Apply_keyword_query

SpecKeyword == InitKeyword /\ [][NextKeyword]_vars

\* the terms the specification lists for the category of rule i
RuleTerms(i) ==
    CASE i = 3 -> Rule3Terms [] i = 4 -> Rule4Terms [] i = 5 -> Rule5Terms
      [] i = 6 -> Rule6Terms [] i = 7 -> Rule7Terms [] i = 8 -> Rule8Terms
      [] i = 9 -> Rule9Terms

\* the category that lists the keyword
OwnRule(keyword) == CHOOSE i \in 3..9 : keyword \in RuleTerms(i)

\* a keyword of a category is the whole query, the business type is not a
\* restaurant-style type and neither name contains the query
KeywordAlone(a) ==
    /\ \E i \in 3..9 : a.query \in RuleTerms(i)
    /\ ~RestaurantStyle(a)
    /\ ~NameMatches(a)

\* C29 as stated: a keyword of a category, used alone as the query for a
\* non-restaurant business type against names that do not contain it, is
\* scored by the rule of its own category; "business" is scored by the
\* business density tiers of rule 9.
C29_KeywordOwnRule ==
    (ScoreDone /\ KeywordAlone(args)) =>
        ret = Returns(Round1Clamped(args.base_score,
                                    RuleMultiplier(OwnRule(args.query), args)))

(***************************************************************************)
(* Claims about the filters of /search/advanced.                           *)
(***************************************************************************)
\* the venue a record of the venue loop was built from
VenueOfRecord(rec) ==
    CHOOSE v \in {args.venues[i] : i \in 1..Len(args.venues)} :
        v.Location = Val(rec.venue_location)

RadiusGiven ==
    \/ args.filters.radius_miles_min # None
    \/ args.filters.radius_miles_max # None

\* C21 as stated: when radius_miles_min and/or radius_miles_max are given,
\* every record of /search/advanced lies at a distance from its nearest
\* Olympic venue that is within [radius_miles_min, radius_miles_max].
C21_RadiusFilterApplied ==
    (AdvancedDone /\ Answered /\ RadiusGiven) =>
        \A k \in 1..Len(Recommendations) :
            LET venue == VenueOfRecord(Recommendations[k])
            IN  is_within_radius_range(Val(venue.Latitude), Val(venue.Longitude),
                    args.filters.radius_miles_min,
                    args.filters.radius_miles_max, args.venues) = Returns(TRUE)

(***************************************************************************)
(* Requests against other contents of the store: both tables empty, an     *)
(* areas table whose only row has a latitude that is not a number, and the *)
(* seeded rows with apartment counts filled in, one of them zero.          *)
(***************************************************************************)
EmptyStore == [areas |-> <<>>, metrics |-> <<>>, next_metric_id |-> 1]

ApartmentMetrics ==
    << AreaMetric(1, 1, 12000, 120, 90, Some(0)),
       AreaMetric(2, 2, 6000, 80, 70, Some(12000)),
       AreaMetric(3, 3, 9000, 60, 65, None) >>

FilterStores ==
    { EmptyStore,
      [EmptyStore EXCEPT !.areas = << MalformedArea >>],
      [seed EXCEPT !.metrics = ApartmentMetrics] }

InitStores ==
    /\ db \in FilterStores
    /\ pc = "idle"
    /\ fn = "none"
    /\ args = NoRequest
    /\ ret = Pending

NextStores ==
    \/ PostSearch
    \/ PostSearchAdvanced
    \/ PostSearchAi
    \/ Respond

SpecStores == InitStores /\ [][NextStores]_vars

\* no row of the store gives a venue a nearest area
NoUsableArea ==
    \A i \in 1..Len(db.areas) : ~ParseFloat(db.areas[i].latitude).ok

\* C23 as stated: the metrics every record of /search/advanced reports
\* satisfy every range filter of the request, for every state of the area
\* store, including a store with no usable area, where the default metric
\* is reported.
C23_RecordsPassFilters ==
    (AdvancedDone /\ Answered) =>
        \A k \in 1..Len(Recommendations) :
            /\ MetricRangesHold(Recommendations[k], args.filters)
            /\ ApartmentHolds(Recommendations[k], args.filters)

\* the metric rows a record can have been built from
MetricsOfRecord(rec) ==
    IF rec.venue_location # None
    THEN { MetricOf(VenueOfRecord(rec)) }
    ELSE { db.metrics[j] : j \in { j \in 1..Len(db.metrics) :
               \E i \in 1..Len(db.areas) :
                   /\ db.areas[i].name = rec.area
                   /\ db.metrics[j].area_id = db.areas[i].id } }

\* C30 as stated: a record reports apartment_count null exactly when the
\* metric has none, and reports every present value, zero included, as
\* that value.
C30_ApartmentCountKept ==
    ((SearchDone \/ AdvancedDone \/ AiDone) /\ Answered) =>
        \A k \in 1..Len(Recommendations) :
            \E metric \in MetricsOfRecord(Recommendations[k]) :
                Recommendations[k].apartment_count = metric.apartment_count

(***************************************************************************)
(* /search/ai against the seeded store, with answers of the recommendation *)
(* prompt that name two areas of the store and one that is not in it, and  *)
(* supply from no reason string up to six.                                 *)
(***************************************************************************)
\* <<reasoning, key_factors, business_insights>>
ReasonShapes ==
    { <<"", ListOf(<<>>), "">>,
      <<"Central", ListOf(<<>>), "">>,
      <<"", [kind |-> "null"], "Lease early">>,
      <<"Central", ListOf(<<"Transit">>), "">>,
      <<"Central", ListOf(<<"Transit", "Offices", "Nightlife", "Parking">>),
        "Lease early">> }

JoinAnswers ==
    { << AIRecommendation("Downtown LA", 90, s[1], s[2], s[3]),
         AIRecommendation("Atlantis", 85, "Not on the map", ListOf(<<>>), ""),
         AIRecommendation("Manhattan Beach", 70, t[1], t[2], t[3]) >> :
        s \in ReasonShapes, t \in ReasonShapes }

JoinOutcomes ==
    { [available |-> FALSE, intent |-> AiFailed, recs |-> AiFailed] }
    \cup { [available |-> TRUE, intent |-> AiIntent,
            recs |-> [error |-> FALSE, list |-> answer]] :
              answer \in JoinAnswers }

JoinQueries ==
    { SearchQuery(q, Some("restaurant")) :
        q \in {"restaurant", "food", "all", "Beach", "xyzxyz123"} }

InitJoin ==
    /\ db = seed
    /\ pc = "idle"
    /\ fn = "none"
    /\ args = NoRequest
    /\ ret = Pending

PostSearchAiJoin ==
    /\ pc = "idle"
    /\ \E q \in JoinQueries, ai \in JoinOutcomes :
          /\ args' = [search_query |-> q, ai |-> ai, venues |-> OlympicVenues]
          /\ ret' = ai_search_locations(q, ai, OlympicVenues, db)
    /\ fn' = "ai_search_locations"
    /\ pc' = "done"
    /\ UNCHANGED db

NextJoin ==
    \/ PostSearchAiJoin
    \/ Respond

SpecJoin == InitJoin /\ [][NextJoin]_vars

\* the candidates of the request with a positive deterministic score, best
\* first
ScoredCandidates ==
    SortByScore(AiAreasLoop(OuterJoin(db, 1), 1,
                            Lower(args.search_query.query),
                            args.search_query.business_type).value)

\* the recommendations the second loop of the request went through
AiRecommendations ==
    generate_ai_recommendations(Take(ScoredCandidates, AiTopAreas),
        analyze_search_intent(args.search_query.query,
                              args.search_query.business_type, args.ai),
        args.ai)

CandidateNamed(name) ==
    \E k \in 1..Len(ScoredCandidates) : ScoredCandidates[k].area = name

\* the number of reason strings a recommendation supplies
SuppliedReasons(ai_rec) ==
    (IF ai_rec.reasoning # "" THEN 1 ELSE 0)
    + (IF ai_rec.key_factors.kind = "list"
       THEN Min(Len(ai_rec.key_factors.items), 3) ELSE 0)
    + (IF ai_rec.business_insights # "" THEN 1 ELSE 0)

\* the reasons of _generate_search_reasons for the area of a record
BasicReasons(rec) ==
    _generate_search_reasons(Lower(args.search_query.query), rec.area,
        NewAreaMetric(0, rec.population_density, rec.business_density,
                      rec.transport_score))

\* the recommendation a record was built from
RecommendationOf(rec) ==
    CHOOSE j \in 1..Len(AiRecommendations) :
        /\ AiRecommendations[j].area_name = rec.area
        /\ AiRecommendations[j].confidence_score = rec.score

\* every record stands for a recommendation that names a candidate, every
\* such recommendation has a record, and a record has one to four reasons
JoinedByName ==
    /\ \A k \in 1..Len(Recommendations) :
          /\ CandidateNamed(Recommendations[k].area)
          /\ \E j \in 1..Len(AiRecommendations) :
                 /\ AiRecommendations[j].area_name = Recommendations[k].area
                 /\ AiRecommendations[j].confidence_score = Recommendations[k].score
          /\ Len(Recommendations[k].reasons) \in 1..4
    /\ \A j \in 1..Len(AiRecommendations) :
          \/ ~CandidateNamed(AiRecommendations[j].area_name)
          \/ \E k \in 1..Len(Recommendations) :
                 Recommendations[k].area = AiRecommendations[j].area_name
    /\ Len(Recommendations)
           = Cardinality({ j \in 1..Len(AiRecommendations) :
                             CandidateNamed(AiRecommendations[j].area_name) })

\* C24 as stated: each AI recommendation is joined to a candidate by area
\* name and dropped when no candidate with a positive score has that name;
\* a record carries one to four reasons, and when the AI supplied fewer
\* than two reason strings the reasons are exactly those of
\* _generate_search_reasons for the area.
C24_AsStated ==
    AiPathAnswer =>
        /\ JoinedByName
        /\ \A k \in 1..Len(Recommendations) :
               SuppliedReasons(AiRecommendations[RecommendationOf(Recommendations[k])]) < 2
                   => Recommendations[k].reasons = BasicReasons(Recommendations[k])

\* C24, amended: as above, but when the AI supplied fewer than two reason
\* strings the reasons are the first four of _generate_search_reasons.
C24_JoinAndFallbackReasons ==
    AiPathAnswer =>
        /\ JoinedByName
        /\ \A k \in 1..Len(Recommendations) :
               SuppliedReasons(AiRecommendations[RecommendationOf(Recommendations[k])]) < 2
                   => Recommendations[k].reasons
                          = Take(BasicReasons(Recommendations[k]), 4)

\* a recommendation without any reason string was joined, another one was
\* dropped, and the basic reasons of the joined area are more than four
C24_Witness ==
    /\ AiPathAnswer
    /\ Len(Recommendations) < Len(AiRecommendations)
    /\ \E k \in 1..Len(Recommendations) :
          /\ SuppliedReasons(AiRecommendations[RecommendationOf(Recommendations[k])]) = 0
          /\ Len(BasicReasons(Recommendations[k])) > 4

(***************************************************************************)
(* Calls of calculate_distance_km on ordered pairs of points: venues,      *)
(* seeded areas and antipodes.                                             *)
(***************************************************************************)
DistancePoints ==
    { <<340141, -1182879>>, <<339583, -1183417>>, <<340497, -1185016>>,
      <<340522, -1182437>>, <<340736, -1184004>>, <<338847, -1184109>>,
      <<-340141, 617121>>, <<-340522, 617563>> }

InitDistance ==
    /\ db = seed
    /\ pc = "call"
    /\ ret = Pending
    /\ fn = "calculate_distance_km"
    /\ args \in { [lat1 |-> p[1], lon1 |-> p[2], lat2 |-> q[1], lon2 |-> q[2]] :
                     p \in DistancePoints, q \in DistancePoints }

Apply_calculate_distance_km ==
    /\ pc = "call"
    /\ fn = "calculate_distance_km"
    /\ ret' = calculate_distance_km(args.lat1, args.lon1, args.lat2, args.lon2)
    /\ pc' = "done"
    /\ UNCHANGED <<fn, args, db>>

NextDistance == Apply_calculate_distance_km

SpecDistance == InitDistance /\ [][NextDistance]_vars

\* C22 as stated: for all coordinate pairs calculate_distance_km returns a
\* distance that is not negative, the same for both orders of the two
\* points, and 0 for identical coordinates.
C22_DistanceSymmetric ==
    Done("calculate_distance_km") =>
        /\ ret.exc = "none"
        /\ ret.value >= 0
        /\ ret = calculate_distance_km(args.lat2, args.lon2, args.lat1, args.lon1)
        /\ (args.lat1 = args.lat2 /\ args.lon1 = args.lon2) => ret.value = 0

(***************************************************************************)
(* Accounts, sessions and password reset tokens (auth_service.py).         *)
(*                                                                         *)
(* The store of the account operations holds the users, user_sessions and  *)
(* password_reset_tokens tables, each in the order of its ids, the clock   *)
(* (datetime.utcnow(), in minutes) and the counter behind                  *)
(* secrets.token_urlsafe(32), whose values never repeat.  A JWT is the     *)
(* record of its claims: only the service, which holds SECRET_KEY, makes   *)
(* one that jwt.decode accepts.                                            *)
(***************************************************************************)
ACCESS_TOKEN_EXPIRE_MINUTES == 30
REFRESH_TOKEN_EXPIRE_DAYS == 7
ResetTokenHours == 1

NoAccounts ==
    [users |-> <<>>, sessions |-> <<>>, reset_tokens |-> <<>>,
     now |-> 0, next_secret |-> 1, issued |-> {}]

\* the first of the rows 1..n that passes the test, 0 when none does
FirstIndex(n, Test(_)) ==
    IF \E k \in 1..n : Test(k)
    THEN CHOOSE k \in 1..n : Test(k) /\ \A j \in 1..(k - 1) : ~Test(j)
    ELSE 0

\* pwd_context.hash and pwd_context.verify
get_password_hash(password) == "$pbkdf2-sha256$" \o password

verify_password(plain_password, hashed_password) ==
    hashed_password = get_password_hash(plain_password)

create_access_token(data, now) ==
    [sub |-> data.sub, session_token |-> data.session_token,
     exp |-> now + ACCESS_TOKEN_EXPIRE_MINUTES, type |-> "access"]

create_refresh_token(data, now) ==
    [sub |-> data.sub, session_token |-> data.session_token,
     exp |-> now + REFRESH_TOKEN_EXPIRE_DAYS * 24 * 60, type |-> "refresh"]

\* a string that is not a JWT signed with SECRET_KEY
NotAToken == [type |-> "garbage"]

\* jwt.decode raises JWTError for a bad signature and for exp in the past
verify_token(token, token_type, now) ==
    IF token.type = "garbage" \/ now > token.exp THEN None
    ELSE IF token.type # token_type THEN None
    ELSE Some(token)

get_user_by_email(store, email) ==
    Bind(FirstIndex(Len(store.users), LAMBDA k : store.users[k].email = email),
         LAMBDA k : IF k = 0 THEN None ELSE Some(store.users[k]))

get_user_by_id(store, user_id) ==
    IF user_id \in 1..Len(store.users) THEN Some(store.users[user_id])
    ELSE None

authenticate_user(store, email, password) ==
    Bind(get_user_by_email(store, email), LAMBDA user :
      IF user = None THEN None
      ELSE IF Val(user).hashed_password = None THEN None
      ELSE IF ~verify_password(password, Val(Val(user).hashed_password))
      THEN None
      ELSE user)

\* the row added and the store with it; is_active defaults to True
create_user(store, email, password) ==
    LET user == [id |-> Len(store.users) + 1, email |-> email,
                 hashed_password |-> IF password # ""
                                     THEN Some(get_password_hash(password))
                                     ELSE None,
                 is_active |-> TRUE]
    IN  [value |-> user, store |-> [store EXCEPT !.users = Append(@, user)]]

create_user_session(store, user_id) ==
    LET session_token == store.next_secret
        refresh_token == store.next_secret + 1
        session == [user_id |-> user_id, session_token |-> session_token,
                    refresh_token |-> refresh_token,
                    expires_at |-> store.now
                                   + REFRESH_TOKEN_EXPIRE_DAYS * 24 * 60,
                    is_active |-> TRUE, last_activity |-> store.now]
        token_data == [sub |-> user_id, session_token |-> session_token]
    IN  [value |-> [access_token |-> create_access_token(token_data, store.now),
                    refresh_token |-> create_refresh_token(token_data, store.now),
                    token_type |-> "bearer"],
         store |-> [store EXCEPT !.sessions = Append(@, session),
                                 !.next_secret = @ + 2]]

\* the first session of the user with the token that is active and has not
\* expired, 0 when there is none
ActiveSession(store, user_id, session_token) ==
    FirstIndex(Len(store.sessions), LAMBDA k :
        /\ store.sessions[k].user_id = user_id
        /\ store.sessions[k].session_token = session_token
        /\ store.sessions[k].is_active
        /\ store.sessions[k].expires_at > store.now)

\* Mutant: the session is looked up whether it is active or not.
RefreshAccessTokenAnySession(store, refresh_token) ==
    Bind(verify_token(refresh_token, "refresh", store.now), LAMBDA payload :
      IF payload = None THEN [value |-> None, store |-> store]
      ELSE Bind(FirstIndex(Len(store.sessions), LAMBDA k :
                    /\ store.sessions[k].user_id = Val(payload).sub
                    /\ store.sessions[k].session_token = Val(payload).session_token),
             LAMBDA k :
               IF k = 0 THEN [value |-> None, store |-> store]
               ELSE [value |-> Some([access_token |->
                                        create_access_token(Val(payload), store.now),
                                     token_type |-> "bearer"]),
                     store |-> [store EXCEPT
                                  !.sessions[k].last_activity = store.now]]))

refresh_access_token(store, refresh_token) ==
    Bind(verify_token(refresh_token, "refresh", store.now), LAMBDA payload :
      IF payload = None THEN [value |-> None, store |-> store]
      ELSE Bind(ActiveSession(store, Val(payload).sub,
                              Val(payload).session_token),
             LAMBDA k :
               IF k = 0 THEN [value |-> None, store |-> store]
               ELSE [value |-> Some([access_token |->
                                        create_access_token(Val(payload), store.now),
                                     token_type |-> "bearer"]),
                     store |-> [store EXCEPT
                                  !.sessions[k].last_activity = store.now]]))

\* session_token is None or Some(token)
logout_user(store, user_id, session_token) ==
    LET sessions == store.sessions
    IN  [store EXCEPT !.sessions =
           [k \in 1..Len(sessions) |->
              IF /\ sessions[k].user_id = user_id
                 /\ sessions[k].is_active
                 /\ (session_token = None
                       \/ sessions[k].session_token = Val(session_token))
              THEN [sessions[k] EXCEPT !.is_active = FALSE]
              ELSE sessions[k]]]

\* Mutant: the tokens issued before stay as they are.
CreatePasswordResetTokenKeepingOld(store, email) ==
    Bind(get_user_by_email(store, email), LAMBDA user :
      IF user = None THEN [value |-> None, store |-> store]
      ELSE [value |-> Some(store.next_secret),
            store |-> [store EXCEPT
               !.reset_tokens =
                   Append(@, [user_id |-> Val(user).id,
                              token |-> store.next_secret,
                              expires_at |-> store.now + ResetTokenHours * 60,
                              is_used |-> FALSE]),
               !.next_secret = @ + 1]])

create_password_reset_token(store, email) ==
    Bind(get_user_by_email(store, email), LAMBDA user :
      IF user = None THEN [value |-> None, store |-> store]
      ELSE LET tokens == store.reset_tokens
               marked == [k \in 1..Len(tokens) |->
                            IF tokens[k].user_id = Val(user).id
                               /\ ~tokens[k].is_used
                            THEN [tokens[k] EXCEPT !.is_used = TRUE]
                            ELSE tokens[k]]
           IN  [value |-> Some(store.next_secret),
                store |-> [store EXCEPT
                   !.reset_tokens =
                       Append(marked,
                              [user_id |-> Val(user).id,
                               token |-> store.next_secret,
                               expires_at |-> store.now + ResetTokenHours * 60,
                               is_used |-> FALSE]),
                   !.next_secret = @ + 1]])

reset_password(store, token, new_password) ==
    Bind(FirstIndex(Len(store.reset_tokens), LAMBDA k :
             /\ store.reset_tokens[k].token = token
             /\ ~store.reset_tokens[k].is_used
             /\ store.reset_tokens[k].expires_at > store.now),
      LAMBDA k :
        IF k = 0 THEN [value |-> FALSE, store |-> store]
        ELSE IF get_user_by_id(store, store.reset_tokens[k].user_id) = None
        THEN [value |-> FALSE, store |-> store]
        ELSE [value |-> TRUE,
              store |-> [store EXCEPT
                 !.users[store.reset_tokens[k].user_id].hashed_password =
                     Some(get_password_hash(new_password)),
                 !.reset_tokens[k].is_used = TRUE]])

\* the outcomes of the mail step: SMTP credentials not configured, the
\* exchange with the server fails, the mail is sent
SmtpOutcomes == {"unconfigured", "failed", "sent"}

send_password_reset_email(smtp) == smtp = "sent"

verify_user_token(token, now) ==
    Bind(verify_token(token, "access", now), LAMBDA payload :
      IF payload = None THEN None
      ELSE Some([user_id |-> Val(payload).sub,
                 session_token |-> Val(payload).session_token]))

(***************************************************************************)
(* auth_middleware.py.                                                     *)
(***************************************************************************)
credentials_exception == HTTPException(401, "Could not validate credentials")

Authenticated(user, store) == [ok |-> TRUE, user |-> user, store |-> store]

Refused(exception, store) == [ok |-> FALSE, error |-> exception, store |-> store]

\* the try block of get_current_user
TryCurrentUser(store, credentials) ==
    Bind(verify_user_token(credentials, store.now), LAMBDA payload :
      IF payload = None THEN Refused(credentials_exception, store)
      ELSE Bind(get_user_by_id(store, Val(payload).user_id), LAMBDA user :
        IF user = None THEN Refused(credentials_exception, store)
        ELSE IF ~Val(user).is_active
        THEN Refused(HTTPException(403, "Inactive user"), store)
        ELSE Bind(ActiveSession(store, Val(user).id, Val(payload).session_token),
               LAMBDA k :
                 IF k = 0 THEN Refused(credentials_exception, store)
                 ELSE Authenticated(Val(user),
                          [store EXCEPT
                             !.sessions[k].last_activity = store.now]))))

\* except Exception: raise credentials_exception; HTTPException is an
\* Exception
get_current_user(store, credentials) ==
    Bind(TryCurrentUser(store, credentials), LAMBDA attempt :
      IF attempt.ok THEN attempt
      ELSE Refused(credentials_exception, store))

get_current_active_user(current) ==
    IF ~current.ok THEN current
    ELSE IF ~current.user.is_active
    THEN Refused(HTTPException(403, "Inactive user"), current.store)
    ELSE current

(***************************************************************************)
(* The account endpoints of main.py.                                       *)
(***************************************************************************)
UserResponse(user) ==
    [id |-> user.id, email |-> user.email, is_active |-> user.is_active]

LoginResponse(session_data, user) ==
    [status |-> 200, access_token |-> session_data.access_token,
     refresh_token |-> session_data.refresh_token,
     token_type |-> session_data.token_type, expires_in |-> 30 * 60,
     user |-> UserResponse(user)]

Answer(response, store) == [response |-> response, store |-> store]

\* the session of a user who was created or authenticated
OpenSession(store, user) ==
    Bind(create_user_session(store, user.id), LAMBDA session :
      Answer(LoginResponse(session.value, user), session.store))

register_user(store, email, password) ==
    IF get_user_by_email(store, email) # None
    THEN Answer(HTTPException(400, "Email already registered"), store)
    ELSE Bind(create_user(store, email, password), LAMBDA created :
           OpenSession(created.store, created.value))

login_user(store, email, password) ==
    Bind(authenticate_user(store, email, password), LAMBDA user :
      IF user = None
      THEN Answer(HTTPException(401, "Incorrect email or password"), store)
      ELSE OpenSession(store, Val(user)))

refresh_token(store, token) ==
    Bind(refresh_access_token(store, token), LAMBDA session_data :
      IF session_data.value = None
      THEN Answer(HTTPException(401, "Invalid refresh token"), store)
      ELSE Answer([status |-> 200,
                   access_token |-> Val(session_data.value).access_token,
                   token_type |-> Val(session_data.value).token_type],
                  session_data.store))

ResetLinkSent ==
    [status |-> 200,
     message |-> "If the email exists, a password reset link has been sent"]

\* Mutant: an email that is not registered is answered with an error.
ForgotPasswordRevealing(store, email, smtp) ==
    Bind(create_password_reset_token(store, email), LAMBDA reset_token :
      IF reset_token.value = None
      THEN Answer(HTTPException(404, "Email not registered"), store)
      ELSE Answer(ResetLinkSent, reset_token.store))

forgot_password(store, email, smtp) ==
    Bind(create_password_reset_token(store, email), LAMBDA reset_token :
      IF reset_token.value = None THEN Answer(ResetLinkSent, store)
      ELSE IF ~send_password_reset_email(smtp)
      THEN Answer(ResetLinkSent, reset_token.store)
      ELSE Answer(ResetLinkSent, reset_token.store))

(***************************************************************************)
(* Requests to the account endpoints.  A client presents a token it was    *)
(* given or a string that is no token; reset tokens are presented whether  *)
(* the mail that carries them was sent or not.                             *)
(***************************************************************************)
MaxUsers == 1
MaxSessions == 2
MaxResetTokens == 2

Emails == {"ann@example.com", "bob@example.com"}

Passwords == {"first password", "second password"}

\* the instants at which requests are observed: after 61 minutes the access
\* tokens and the reset tokens of the first instant have expired, one
\* minute after seven days its sessions
Instants == {0, 61, 7 * 24 * 60 + 1}

Presented == db.issued \cup {NotAToken}

ResetTokensPresented ==
    {db.reset_tokens[k].token : k \in 1..Len(db.reset_tokens)} \cup {0}

\* the tokens of a response, as the client keeps them
TokensOf(response) ==
    (IF "access_token" \in DOMAIN response
     THEN {response.access_token} ELSE {})
    \cup (IF "refresh_token" \in DOMAIN response
          THEN {response.refresh_token} ELSE {})

\* the handler has answered: request and response are recorded, and the
\* client keeps the tokens of the response
Handled(name, request, answer) ==
    /\ fn' = name
    /\ args' = request
    /\ ret' = answer.response
    /\ db' = [answer.store EXCEPT !.issued = @ \cup TokensOf(answer.response)]
    /\ pc' = "done"

InitAccounts ==
    /\ db = NoAccounts
    /\ pc = "idle"
    /\ fn = "none"
    /\ args = NoRequest
    /\ ret = Pending

PostRegister ==
    \E email \in Emails :
        /\ get_user_by_email(db, email) = None =>
               Len(db.users) < MaxUsers /\ Len(db.sessions) < MaxSessions
        /\ Handled("register_user",
                   [email |-> email, password |-> "first password"],
                   register_user(db, email, "first password"))

PostLogin ==
    \E email \in Emails, password \in Passwords :
        /\ authenticate_user(db, email, password) # None =>
               Len(db.sessions) < MaxSessions
        /\ Handled("login_user", [email |-> email, password |-> password],
                   login_user(db, email, password))

PostRefresh ==
    \E token \in Presented :
        Handled("refresh_token", [refresh_token |-> token],
                refresh_token(db, token))

\* POST /auth/logout: Depends(get_current_user), then logout_user without
\* a session token
PostLogout ==
    \E token \in Presented :
        Handled("logout_user", [credentials |-> token],
            Bind(get_current_user(db, token), LAMBDA current :
              IF ~current.ok THEN Answer(current.error, current.store)
              ELSE Answer([status |-> 200,
                           message |-> "Successfully logged out"],
                          logout_user(current.store, current.user.id, None))))

PostForgotPassword ==
    \E email \in Emails, smtp \in SmtpOutcomes :
        /\ get_user_by_email(db, email) # None =>
               Len(db.reset_tokens) < MaxResetTokens
        /\ Handled("forgot_password", [email |-> email, smtp |-> smtp],
                   forgot_password(db, email, smtp))

PostResetPassword ==
    \E token \in ResetTokensPresented :
        Handled("reset_password",
            [token |-> token, new_password |-> "second password"],
            Bind(reset_password(db, token, "second password"), LAMBDA success :
              IF ~success.value
              THEN Answer(HTTPException(400, "Invalid or expired reset token"),
                          success.store)
              ELSE Answer([status |-> 200,
                           message |-> "Password successfully reset"],
                          success.store)))

\* GET /auth/me: Depends(get_current_active_user)
GetMe ==
    \E token \in Presented :
        Handled("get_current_user_profile", [credentials |-> token],
            Bind(get_current_active_user(get_current_user(db, token)),
              LAMBDA current :
                IF ~current.ok THEN Answer(current.error, current.store)
                ELSE Answer([status |-> 200, user |-> UserResponse(current.user)],
                            current.store)))

\* PUT /auth/me with the body {"is_active": false}: setattr on every
\* attribute of the user that the body names
PutMe ==
    \E token \in Presented :
        Handled("update_user_profile",
            [credentials |-> token, user_update |-> [is_active |-> FALSE]],
            Bind(get_current_active_user(get_current_user(db, token)),
              LAMBDA current :
                IF ~current.ok THEN Answer(current.error, current.store)
                ELSE Answer([status |-> 200,
                             user |-> UserResponse([current.user EXCEPT
                                                      !.is_active = FALSE])],
                            [current.store EXCEPT
                               !.users[current.user.id].is_active = FALSE])))

\* time passes
Tick ==
    /\ \E later \in Instants :
          /\ later > db.now
          /\ db' = [db EXCEPT !.now = later]
    /\ fn' = "none"
    /\ args' = NoRequest
    /\ ret' = Pending
    /\ pc' = "idle"

NextAccounts ==
    \/ PostRegister
    \/ PostLogin
    \/ PostRefresh
    \/ PostLogout
    \/ PostForgotPassword
    \/ PostResetPassword
    \/ GetMe
    \/ PutMe
    \/ Tick

SpecAccounts == InitAccounts /\ [][NextAccounts]_vars

(***************************************************************************)
(* Claims about sessions.                                                  *)
(***************************************************************************)
\* the rows of user_sessions a token was issued for
SessionsOf(store, token) ==
    IF token.type = "garbage" THEN {}
    ELSE { k \in 1..Len(store.sessions) :
             /\ store.sessions[k].user_id = token.sub
             /\ store.sessions[k].session_token = token.session_token }

\* the token was issued for a session that is inactive
Revoked(store, token) ==
    \E k \in SessionsOf(store, token) : ~store.sessions[k].is_active

GuardedRequests ==
    {"logout_user", "get_current_user_profile", "update_user_profile"}

\* a logout without a session token was answered in this step
LoggedOut == fn' = "logout_user" /\ ret'.status = 200

\* C25: after logout_user(user_id) without a session token every session of
\* the user is inactive; an inactive session stays inactive in every later
\* step, refresh_access_token returns None for a refresh token issued for
\* it (the endpoint answers 401) and get_current_user rejects an access
\* token issued for it, whatever happens in between; a new login adds a
\* new session and leaves the old ones inactive.
C25_LogoutRevokesSessions ==
    [][ /\ LoggedOut =>
               \A k \in 1..Len(db'.sessions) :
                   db'.sessions[k].user_id = args'.credentials.sub
                       => ~db'.sessions[k].is_active
        /\ \A k \in 1..Len(db.sessions) :
               ~db.sessions[k].is_active =>
                   /\ Len(db'.sessions) >= k
                   /\ db'.sessions[k].session_token = db.sessions[k].session_token
                   /\ ~db'.sessions[k].is_active
        /\ (fn' = "refresh_token" /\ Revoked(db, args'.refresh_token)) =>
               /\ refresh_access_token(db, args'.refresh_token).value = None
               /\ ret' = HTTPException(401, "Invalid refresh token")
        /\ (fn' \in GuardedRequests /\ Revoked(db, args'.credentials)) =>
               /\ ~get_current_user(db, args'.credentials).ok
               /\ ret' = credentials_exception
      ]_vars

\* after a logout the user has logged in again; a refresh token of the old
\* session, not yet expired, was presented and refused
C25_Witness ==
    /\ Done("refresh_token")
    /\ args.refresh_token.type = "refresh"
    /\ db.now <= args.refresh_token.exp
    /\ Revoked(db, args.refresh_token)
    /\ \E k \in 1..Len(db.sessions) :
          /\ db.sessions[k].user_id = args.refresh_token.sub
          /\ db.sessions[k].is_active
    /\ ret = HTTPException(401, "Invalid refresh token")

(***************************************************************************)
(* Claims about password reset tokens.                                     *)
(***************************************************************************)
UnusedTokens(store, user_id) ==
    { k \in 1..Len(store.reset_tokens) :
        /\ store.reset_tokens[k].user_id = user_id
        /\ ~store.reset_tokens[k].is_used }

\* row k is the reset token most recently issued to its user
MostRecent(store, k) ==
    \A j \in 1..Len(store.reset_tokens) :
        store.reset_tokens[j].user_id = store.reset_tokens[k].user_id => j <= k

\* reset_password accepted the token of row k in this step
ResetAccepted(k) ==
    /\ db.reset_tokens[k].token = args'.token
    /\ ~db.reset_tokens[k].is_used
    /\ db.reset_tokens[k].expires_at > db.now
    /\ MostRecent(db, k)
    /\ db'.reset_tokens[k].is_used
    /\ db'.users[db.reset_tokens[k].user_id].hashed_password
           = Some(get_password_hash(args'.new_password))

\* C26: each user has at most one unused reset token at any time; a token
\* that is used stays used; reset_password changes a password only for a
\* token that is unused, not expired and the most recently issued one of its
\* user, and marks it used; a call that is refused (a second call with the
\* same token among them) changes nothing; nothing else changes a password.
C26_ResetTokenSingleUse ==
    [][ /\ \A u \in 1..Len(db'.users) : Cardinality(UnusedTokens(db', u)) <= 1
        /\ \A k \in 1..Len(db.reset_tokens) :
               db.reset_tokens[k].is_used =>
                   /\ Len(db'.reset_tokens) >= k
                   /\ db'.reset_tokens[k].token = db.reset_tokens[k].token
                   /\ db'.reset_tokens[k].is_used
        /\ fn' = "reset_password" =>
               IF ret'.status = 200
               THEN \E k \in 1..Len(db.reset_tokens) : ResetAccepted(k)
               ELSE db' = db
        /\ \A u \in 1..Len(db.users) :
               db'.users[u].hashed_password # db.users[u].hashed_password
                   => fn' = "reset_password" /\ ret'.status = 200
      ]_vars

\* the token that changed the password is presented again before it
\* expires and is refused
C26_Witness ==
    /\ Done("reset_password")
    /\ ret = HTTPException(400, "Invalid or expired reset token")
    /\ \E k \in 1..Len(db.reset_tokens) :
          /\ db.reset_tokens[k].token = args.token
          /\ db.reset_tokens[k].is_used
          /\ db.reset_tokens[k].expires_at > db.now
          /\ MostRecent(db, k)
          /\ db.users[db.reset_tokens[k].user_id].hashed_password
                 = Some(get_password_hash("second password"))

(***************************************************************************)
(* Claims about the answers of the account endpoints.                      *)
(***************************************************************************)
\* C27 as stated: get_current_user answers 403 "Inactive user" when the
\* access token is valid but the user is inactive, and 401 "Could not
\* validate credentials" for an invalid token, an unknown user, or an
\* inactive or expired session.
C27_InactiveUserIs403 ==
    Done("get_current_user_profile") =>
        LET payload == verify_user_token(args.credentials, db.now)
        IN  IF payload = None THEN ret = credentials_exception
            ELSE IF get_user_by_id(db, Val(payload).user_id) = None
            THEN ret = credentials_exception
            ELSE IF ~Val(get_user_by_id(db, Val(payload).user_id)).is_active
            THEN ret = HTTPException(403, "Inactive user")
            ELSE IF ActiveSession(db, Val(payload).user_id,
                                  Val(payload).session_token) = 0
            THEN ret = credentials_exception
            ELSE ret.status = 200

\* C28: the response of /auth/forgot-password is the same whether or not
\* the email belongs to a registered user and whether or not the reset
\* email could be sent.
C28_ForgotPasswordUniform ==
    Done("forgot_password") =>
        \A email \in Emails, smtp \in SmtpOutcomes :
            forgot_password(db, email, smtp).response = ret

\* a reset was asked for an email without account while another email has
\* one
C28_Witness ==
    /\ Done("forgot_password")
    /\ get_user_by_email(db, args.email) = None
    /\ \E email \in Emails : get_user_by_email(db, email) # None
    /\ ret = ResetLinkSent

====
